---- MODULE Spec2Model ----
(***************************************************************************)
(* Model of the Upwork job-listing scraper: the staleness cache back ends  *)
(* (postgres_backend.py, sqlite_backend.py, rocksdb_backend.py and the     *)
(* RealtimeJobDatabase facade of realtimedb.py) and the scraping service   *)
(* of core/service.py.                                                     *)
(*                                                                         *)
(* Time is the wall clock in whole seconds.  Strings that the code builds  *)
(* by concatenation (RocksDB keys) are sequences of tokens, so that the    *)
(* code's substring and prefix tests are computed, not assumed.            *)
(***************************************************************************)
EXTENDS Integers, Sequences, FiniteSets, TLC

VARIABLES
    backend,   \* which tracker class is instantiated
    isOpen,    \* the tracker's handles are set (_db / engine, SessionLocal)
    rows,      \* job_entries table of the relational back ends
    kv,        \* the RocksDB key space: [key, val, kind, gid, at] entries
    failed,    \* failed_job_entries table: a sequence of entries
    now,       \* datetime.now(), in seconds
    ticks,     \* number of clock advances so far
    seen,      \* number of do_seen calls so far
    seenAt,    \* ghost: per id, the clock reading of its last committed do_seen
    ret,       \* the last tracker call: arguments, result and ghost data
    pc,        \* where the run_scraping task stands
    max_jobs,  \* config.max_jobs
    cancelRequested, \* task.cancel() was called and not yet delivered
    delivered, \* ghost: CancelledError was thrown into the task
    index,     \* number of search URLs taken from search_urls so far
    job_list,  \* the stubs extracted from the current search page
    cursor,    \* position of the running loop in the list it walks
    new_job_urls, \* the queue handed to _process_job_urls_individually
    comprehensive_jobs_found, \* deque of the uids saved in this run
    individual_jobs, \* Firestore collection: uid -> last_visited_at or Never
    job_list_db, \* Firestore collection job_list: the uids stored
    pushed,    \* data_store.push_data: the uids pushed
    tab,       \* the tab the last _process_single_job_url opened, or NoTab
    opens,     \* number of tabs open_link_in_new_tab has returned
    openTabs,  \* number of detail tabs the browser holds open
    cleanupErrors, \* ghost: releases in which close() and quit() failed
    thrown,    \* ghost: uids whose detail extraction threw or was rejected
    runner,    \* where run_main_with_shutdown stands
    calls,     \* the do_seen calls in flight, one per concurrent caller
    tabs,      \* driver.tabs: the open tabs, in the driver's order
    focus,     \* driver._tab: the tab the driver acts on
    base_tab,  \* base_tab of the running _process_single_job_url
    switchRaised, \* ghost: an exception left _safe_switch_to_base_tab
    summary,   \* main(): the summary it stored and the exception it ended with
    driver,    \* self.driver is set
    initialized, \* self._initialized
    executing, \* the calls on the driver that are executing, in any thread
    escaped,   \* the exception cleanup() has ended with, or "none"
    bypass,    \* the running handle_cloudflare_detection call
    waited,    \* how driver.wait_for has ended on the page last loaded
    total_jobs_processed, \* self._total_jobs_processed
    mainLoop,  \* run_main_with_shutdown: its position, _shutdown_requested,
               \* _main_task and what it has called so far
    api        \* the API-forwarding actor: one _process_jobs_simple call

storeVars == <<backend, isOpen, rows, kv, failed, now, ticks, seen, seenAt, ret>>

svcVars == <<pc, max_jobs, cancelRequested, delivered, index, job_list, cursor,
             new_job_urls, comprehensive_jobs_found, individual_jobs,
             job_list_db, pushed, tab, opens, openTabs, cleanupErrors, thrown,
             runner, tabs, focus, base_tab, switchRaised, summary,
             driver, initialized, executing, escaped, bypass, waited,
             total_jobs_processed, mainLoop, api>>

cleanupVars == <<driver, initialized, executing, escaped>>

driverVars == <<tabs, focus, base_tab, switchRaised>>

vars == <<backend, isOpen, rows, kv, failed, now, ticks, seen, seenAt, ret,
          pc, max_jobs, cancelRequested, delivered, index, job_list, cursor,
          new_job_urls, comprehensive_jobs_found, individual_jobs,
          job_list_db, pushed, tab, opens, openTabs, cleanupErrors, thrown,
          runner, calls, tabs, focus, base_tab, switchRaised, summary,
          driver, initialized, executing, escaped, bypass, waited,
          total_jobs_processed, mainLoop, api>>

----------------------------------------------------------------------------
(* Bounds of the model *)

MaxTicks == 1
MaxSeen == 2
MaxFailed == 2
MaxDetailPages == 2
\* iterations of the persistent loop that are followed
MaxIterations == 2

(* Program constants *)

StaleThreshold == 10
SecondsPerDay == 86400

----------------------------------------------------------------------------
(* Values *)

Backends == {"postgres", "sqlite", "rocksdb"}
Relational == {"postgres", "sqlite"}

\* a call goes to the tracker itself or through the RealtimeJobDatabase facade,
\* which wraps the PostgreSQL tracker
Vias == {"tracker", "facade"}

\* job ids are token sequences; the third one contains the text ":history:"
IdA == <<"A">>
IdAH == <<"A", ":history:", "x">>
JobIds == {IdA, IdAH}
EmptyId == <<>>
NoneId == <<"<None>">>
BadIds == {EmptyId, NoneId}

\* the last_visited_at entry of a job_data dict
Absent == [kind |-> "absent", wall |-> 0]
NoneV == [kind |-> "none", wall |-> 0]
StrV(t) == [kind |-> "str", wall |-> t]
DateV(t) == [kind |-> "datetime", wall |-> t]

Carried == {Absent, NoneV, StrV(0), DateV(0)}

TickSteps == {5, 10, 11}
DaysToKeep == {0, 1}

\* the empty timestamp of a latest row sorts before every history timestamp
LatestTs == -1

Never == -1

FailModes == {"none", "before", "between"}

NoCall ==
    [op |-> "none", id |-> EmptyId, at |-> 0, arg |-> 0, bool |-> FALSE, num |-> 0,
     raised |-> FALSE, failedIO |-> FALSE, n |-> 0, base |-> 0, clean |-> TRUE]

----------------------------------------------------------------------------
(* Pure helpers *)

\* datetime.isoformat()
IsoFormat(dt) == StrV(dt.wall)

\* datetime.fromisoformat(s.replace("Z", "+00:00")) with tzinfo stripped
FromIso(s) == s.wall

\* JobData.model_dump(): last_visited_at is a datetime, datetime.now() by default
ModelDump(given, t) == IF given.kind = "absent" THEN DateV(t) ELSE DateV(given.wall)

\* `not job_id`
IsFalsyId(id) == id = NoneId \/ id = EmptyId

\* timestamp = datetime.now().isoformat().replace(":", "-").replace(".", "-")
HistoryTimestamp(t) == t

\* `needle in key_str` for a separator token
HasToken(key, tok) == \E i \in 1..Len(key) : key[i] = tok

\* key.startswith(prefix)
StartsWith(key, prefix) ==
    /\ Len(key) >= Len(prefix)
    /\ SubSeq(key, 1, Len(prefix)) = prefix

LatestKey(id) == <<"job:">> \o id \o <<":latest">>
HistoryPrefix(id) == <<"job:">> \o id \o <<":history:">>
HistoryKey(id, t) == HistoryPrefix(id) \o <<ToString(HistoryTimestamp(t))>>

----------------------------------------------------------------------------
(* Relational back ends: PostgreSQLJobTracker and SQLiteJobTracker *)

LatestRows(rs, id) ==
    {r \in rs : r.job_id = id /\ r.entry_type = "latest" /\ r.timestamp = LatestTs}

HistoryRows(rs, id) == {r \in rs : r.job_id = id /\ r.entry_type = "history"}

\* "Add timestamp if not present and ensure it's serializable"
RelNormalize(lva, t) ==
    IF lva.kind = "absent" THEN IsoFormat(DateV(t))
    ELSE IF lva.kind = "datetime" THEN IsoFormat(lva)
    ELSE lva

\* The session of do_seen: update or insert the latest row, add the history
\* row, commit.  A history row with the same primary key makes the commit
\* fail, and the whole transaction is rolled back.
RelDoSeen(rs, id, lva, t) ==
    LET data == [job_id |-> id, last_visited_at |-> RelNormalize(lva, t)]
        latest == [job_id |-> id, entry_type |-> "latest", timestamp |-> LatestTs,
                   data |-> data, last_visited_at |-> t]
        history == [job_id |-> id, entry_type |-> "history",
                    timestamp |-> HistoryTimestamp(t),
                    data |-> data, last_visited_at |-> t]
        conflict == \E r \in rs : /\ r.job_id = id
                                  /\ r.entry_type = "history"
                                  /\ r.timestamp = history.timestamp
    IN  IF conflict THEN rs
        ELSE (rs \ LatestRows(rs, id)) \cup {latest, history}

\* PostgreSQLJobTracker.should_process: compares the row's column
PgShouldProcess(rs, id, t) ==
    IF LatestRows(rs, id) = {} THEN TRUE
    ELSE LET r == CHOOSE x \in LatestRows(rs, id) : TRUE
         IN  t - r.last_visited_at > StaleThreshold

\* SQLiteJobTracker.should_process: compares the value inside the JSON data
SqliteShouldProcess(rs, id, t) ==
    LET found == {r \in rs : r.job_id = id /\ r.entry_type = "latest"}
    IN  IF found = {} THEN TRUE
        ELSE LET r == CHOOSE x \in found : TRUE
                 s == r.data.last_visited_at
             IN  IF s.kind = "none" THEN TRUE
                 ELSE t - FromIso(s) > StaleThreshold

\* cleanup_old_history: the rows the DELETE removes
RelCleanupDeleted(rs, days, t) ==
    {r \in rs : /\ r.entry_type = "history"
                /\ r.last_visited_at < t - days * SecondsPerDay}

----------------------------------------------------------------------------
(* RocksDBJobTracker *)

KvGet(db, key) == {e \in db : e.key = key}

KvPut(db, key, val, kind, id, t) ==
    {e \in db : e.key # key}
        \cup {[key |-> key, val |-> val, kind |-> kind, gid |-> id, at |-> t]}

\* job_data after "Add timestamp if not present"
RocksNormalize(lva, t) == IF lva.kind = "absent" THEN IsoFormat(DateV(t)) ELSE lva

\* json.dumps(job_data) has no default: a datetime value raises TypeError
RocksSerializable(lva) == lva.kind # "datetime"

RocksDoSeen(db, id, lva, t, fail) ==
    LET data == [job_id |-> id, last_visited_at |-> RocksNormalize(lva, t)]
        one == KvPut(db, LatestKey(id), data, "latest", id, t)
        two == KvPut(one, HistoryKey(id, t), data, "history", id, t)
    IN  IF ~RocksSerializable(data.last_visited_at) \/ fail = "before" THEN db
        ELSE IF fail = "between" THEN one
        ELSE two

RocksShouldProcess(db, open, id, t, fail) ==
    IF ~open THEN FALSE
    ELSE IF fail # "none" THEN TRUE
    ELSE LET found == KvGet(db, LatestKey(id))
         IN  IF found = {} THEN TRUE
             ELSE LET s == (CHOOSE e \in found : TRUE).val.last_visited_at
                  IN  IF s.kind = "none" THEN TRUE
                      ELSE t - FromIso(s) > StaleThreshold

\* the scan of cleanup_old_history: every key that contains ":history:"
RocksScanned(db) == {e \in db : HasToken(e.key, ":history:")}

\* `last_visited < cutoff_str` raises TypeError when the value is null
RocksScanRaises(db) == \E e \in RocksScanned(db) : e.val.last_visited_at.kind = "none"

RocksCleanupDeleted(db, days, t) ==
    IF RocksScanRaises(db) THEN {}
    ELSE {e \in RocksScanned(db) :
            FromIso(e.val.last_visited_at) < t - days * SecondsPerDay}

----------------------------------------------------------------------------
(* Ghost views of the store: what a caller calls latest and history rows *)

AbsHistory ==
    IF backend \in Relational
    THEN {[id |-> r.job_id, at |-> r.last_visited_at] :
            r \in {x \in rows : x.entry_type = "history"}}
    ELSE {[id |-> e.gid, at |-> e.at] : e \in {x \in kv : x.kind = "history"}}

AbsLatest ==
    IF backend \in Relational
    THEN {[id |-> r.job_id, at |-> r.last_visited_at, data |-> r.data] :
            r \in {x \in rows : x.entry_type = "latest"}}
    ELSE {[id |-> e.gid, at |-> e.at, data |-> e.val] :
            e \in {x \in kv : x.kind = "latest"}}

HistCount(id) == Cardinality({h \in AbsHistory : h.id = id})
LatestCount(id) == Cardinality({l \in AbsLatest : l.id = id})

----------------------------------------------------------------------------
(* Concurrent callers of do_seen: values *)

\* the threads or processes that call do_seen on one store
Callers == {1, 2, 3}

\* a caller that is not inside do_seen
IdleCall == [stage |-> "idle", id |-> EmptyId,
             data |-> [job_id |-> EmptyId, last_visited_at |-> Absent],
             saw |-> FALSE, ok |-> FALSE]

NoCalls == [p \in Callers |-> IdleCall]

----------------------------------------------------------------------------
(* The scraping service: values *)

\* the search_urls handed to run_scraping and the values of config.max_jobs
SearchUrls == <<"u1", "u2">>
Quotas == {1, 2}

\* staleness_threshold_seconds when STALENESS_THRESHOLD is not set
StalenessThresholdSeconds == 200

\* job["uid"] values and the job lists a search page can yield
Uids == {"a", "b"}
Listings == {<<>>, <<"a">>, <<"a", "b">>}

\* seconds that pass while the task sleeps in _apply_random_delay
\* (delay_max is at most 60) and while driver.get loads a search page
\* (timeout=120) and the bypass is retried
DelaySeconds == {60}
LoadSeconds == {0, 120}

\* what driver.get does for a search page
PageLoads == {"ok", "Exception", "CloudflareDetectionException"}

\* handle_cloudflare_detection(retry_attempts=3): how many of the calls of
\* detect_and_bypass_cloudflare fail before one works
RetryAttempts == 3
BypassFailures == {0, 1, 4}

\* what open_link_in_new_tab does
OpenOutcomes == {"tab", "Exception"}

\* what the detail extraction does: a dict, None, or an exception
ExtractOutcomes == {"dict", "None", "Exception"}

\* how driver.wait_for ends: the element is there, or the wait times out
\* with an exception of the driver
WaitForOutcomes == {"found", "Exception"}

\* what the Firestore set() of the detail document does
SaveOutcomes == {"ok", "Exception"}

\* what the tab does when it is released: is_closed already set, close()
\* works, or close() raises and quit() works, raises or does not exist
CloseOutcomes == {"is_closed", "closed", "quit", "quit_raises", "no_quit"}

\* a tab as open_link_in_new_tab returns it
NewTab(uid) == [uid |-> uid, open |-> TRUE, closeCalls |-> 0, quitCalls |-> 0,
                released |-> FALSE, cleanupError |-> FALSE]

\* tab = None
NoTab == [uid |-> "", open |-> FALSE, closeCalls |-> 0, quitCalls |-> 0,
          released |-> FALSE, cleanupError |-> FALSE]

\* the positions at which run_scraping has ended
Ended == {"returned", "cancelled", "raised"}

\* driver._tab = None, base_tab = None
NoFocus == "<None>"

\* the browser on the listing page, no detail page in work
DriverIdle ==
    /\ tabs = <<"listing">>
    /\ focus = "listing"
    /\ base_tab = NoFocus
    /\ switchRaised = FALSE

\* main() has stored no summary and has not ended
MainRunning == [stored |-> "pending", raised |-> "none"]

\* a call handle_cloudflare_detection(retry_attempts, next_delay) during
\* which the next `failures` calls of detect_and_bypass_cloudflare raise:
\* bound is the retry_attempts of the outermost call, delays the time.sleep
\* arguments so far, ended how the outermost call has ended
BypassCall(retry_attempts, next_delay, failures) ==
    [bound |-> retry_attempts, retry_attempts |-> retry_attempts,
     next_delay |-> next_delay, failures |-> failures, attempts |-> 0,
     delays |-> <<>>, ended |-> "running"]

\* no call of handle_cloudflare_detection is under way
NoBypass == [BypassCall(0, 0, 0) EXCEPT !.ended = "none"]

\* the service after initialize(): the driver is created, no call on it runs
Initialized ==
    /\ driver = TRUE
    /\ initialized = TRUE
    /\ executing = {}
    /\ escaped = "none"
    /\ bypass = NoBypass

\* _process_jobs_simple(jobs, debug_mode, max_jobs) at its first statement
ProcessJobsCall(jobs, debug_mode, quota) ==
    [jobs |-> jobs, debug_mode |-> debug_mode, max_jobs |-> quota,
     position |-> 0, pushed |-> <<>>, processed_count |-> 0, returned |-> -1]

\* no call of _process_jobs_simple
NoApi == ProcessJobsCall(<<>>, FALSE, 0)

ApiIdle == api = NoApi

\* run_main_with_shutdown at the head of its loop, before any signal
RunnerStart ==
    [pc |-> "test", shutdown_requested |-> FALSE, main_task |-> "none",
     iterations |-> 0, startedAfterSignal |-> FALSE, ended |-> "none",
     remaining |-> 0, cleanups |-> 0, closes |-> 0, result |-> "none"]

\* run_main_with_shutdown is not running
NoLoop == [RunnerStart EXCEPT !.pc = "none"]

RunnerIdle == mainLoop = NoLoop

\* the service object before run_scraping is called
ServiceIdle ==
    /\ pc = "idle"
    /\ cancelRequested = FALSE
    /\ delivered = FALSE
    /\ index = 0
    /\ job_list = <<>>
    /\ cursor = 0
    /\ new_job_urls = <<>>
    /\ comprehensive_jobs_found = <<>>
    /\ individual_jobs = [u \in Uids |-> Never]
    /\ job_list_db = {}
    /\ pushed = {}
    /\ tab = NoTab
    /\ opens = 0
    /\ openTabs = 0
    /\ cleanupErrors = 0
    /\ thrown = {}
    /\ runner = "awaiting"
    /\ summary = MainRunning
    /\ waited = "none"
    /\ total_jobs_processed = 0

----------------------------------------------------------------------------
(* The tracker's operations *)

StoreInit ==
    /\ backend \in Backends
    /\ isOpen = TRUE
    /\ rows = {}
    /\ kv = {}
    /\ failed = <<>>
    /\ now = 0
    /\ ticks = 0
    /\ seen = 0
    /\ seenAt = [id \in JobIds |-> Never]
    /\ ret = NoCall
    /\ calls = NoCalls
    /\ max_jobs = 1
    /\ ServiceIdle
    /\ ApiIdle
    /\ RunnerIdle
    /\ DriverIdle
    /\ Initialized

\* the wall clock advances
Tick(d) ==
    /\ ticks < MaxTicks
    /\ now' = now + d
    /\ ticks' = ticks + 1
    /\ UNCHANGED <<backend, isOpen, rows, kv, failed, seen, seenAt, ret>>
    /\ UNCHANGED <<svcVars, calls>>

\* do_seen(job_data) of the instantiated tracker.  RealtimeJobDatabase.do_seen
\* raises on a None id and hands model_dump() to the PostgreSQL tracker.
DoSeen(id, given, fail, via) ==
    /\ seen < MaxSeen
    /\ id \in BadIds => given = Absent /\ fail = "none"
    /\ via = "facade" => backend = "postgres" /\ given \in {Absent, DateV(0)}
    /\ via = "tracker" /\ backend \in Relational => given.kind # "datetime"
    /\ backend \in Relational => fail # "between"
    /\ LET lva == IF via = "facade" THEN ModelDump(given, now) ELSE given
           raises == via = "facade" /\ id = NoneId
           reached == IF backend = "rocksdb"
                      THEN isOpen /\ ~IsFalsyId(id)
                      ELSE ~raises /\ ~IsFalsyId(id)
           rows2 == IF backend \in Relational /\ reached /\ isOpen /\ fail = "none"
                    THEN RelDoSeen(rows, id, lva, now)
                    ELSE rows
           kv2 == IF backend = "rocksdb" /\ reached
                  THEN RocksDoSeen(kv, id, lva, now, fail)
                  ELSE kv
           committed == IF backend \in Relational
                        THEN rows2 # rows
                        ELSE KvGet(kv2, LatestKey(id)) # KvGet(kv, LatestKey(id))
           again == ret.op = "do_seen" /\ ret.id = id /\ ret.n = 1
           good == isOpen /\ fail = "none" /\ ~IsFalsyId(id)
       IN  /\ rows' = rows2
           /\ kv' = kv2
           /\ seenAt' = IF id \in JobIds /\ committed
                         THEN [seenAt EXCEPT ![id] = now]
                         ELSE seenAt
           /\ ret' = [NoCall EXCEPT
                        !.op = "do_seen", !.id = id, !.at = now, !.raised = raises,
                        !.failedIO = (fail # "none" \/ ~isOpen),
                        !.n = IF IsFalsyId(id) THEN 0 ELSE IF again THEN 2 ELSE 1,
                        !.base = IF IsFalsyId(id) THEN 0
                                 ELSE IF again THEN ret.base ELSE HistCount(id),
                        !.clean = IF again THEN ret.clean /\ good ELSE good]
    /\ seen' = seen + 1
    /\ UNCHANGED <<backend, isOpen, failed, now, ticks>>
    /\ UNCHANGED <<svcVars, calls>>

\* should_process(job_id) of the instantiated tracker
ShouldProcess(id, fail) ==
    /\ fail \in {"none", "before"}
    /\ LET res == IF backend = "rocksdb"
                  THEN RocksShouldProcess(kv, isOpen, id, now, fail)
                  ELSE IF ~isOpen \/ fail # "none" THEN TRUE
                  ELSE IF backend = "sqlite" THEN SqliteShouldProcess(rows, id, now)
                  ELSE PgShouldProcess(rows, id, now)
       IN  ret' = [NoCall EXCEPT
                     !.op = "should_process", !.id = id, !.at = now, !.bool = res,
                     !.failedIO = (fail # "none" \/ ~isOpen)]
    /\ UNCHANGED <<backend, isOpen, rows, kv, failed, now, ticks, seen, seenAt>>
    /\ UNCHANGED <<svcVars, calls>>

\* cleanup_old_history(days_to_keep) of the instantiated tracker
CleanupOldHistory(days, fail) ==
    /\ fail \in {"none", "before"}
    /\ LET works == isOpen /\ fail = "none"
           relDel == IF works THEN RelCleanupDeleted(rows, days, now) ELSE {}
           kvDel == IF works THEN RocksCleanupDeleted(kv, days, now) ELSE {}
       IN  /\ rows' = IF backend \in Relational THEN rows \ relDel ELSE rows
           /\ kv' = IF backend = "rocksdb" THEN kv \ kvDel ELSE kv
           /\ ret' = [NoCall EXCEPT
                        !.op = "cleanup_old_history", !.at = now, !.arg = days,
                        !.num = IF backend \in Relational
                                THEN Cardinality(relDel) ELSE Cardinality(kvDel),
                        !.failedIO = ~works]
    /\ UNCHANGED <<backend, isOpen, failed, now, ticks, seen, seenAt>>
    /\ UNCHANGED <<svcVars, calls>>

\* a failed_jobs table that keeps only the newest attempt
ReplaceFailedEntry(tbl, entry) == <<entry>>

\* session.add(failed_entry); session.commit(): a new row under a fresh key
AddFailedEntry(tbl, entry) == Append(tbl, entry)

\* record_failed_job(job_url, error_message): the relational trackers only
RecordFailedJob(id, fail) ==
    /\ Len(failed) < MaxFailed
    /\ backend \in Relational
    /\ fail \in {"none", "before"}
    /\ failed' = IF isOpen /\ fail = "none"
                  THEN AddFailedEntry(failed, [job_url |-> <<"/jobs/">> \o id,
                                               job_id |-> id, attempted_at |-> now])
                  ELSE failed
    /\ ret' = [NoCall EXCEPT !.op = "record_failed_job", !.id = id, !.at = now,
                               !.failedIO = (fail # "none" \/ ~isOpen)]
    /\ UNCHANGED <<backend, isOpen, rows, kv, now, ticks, seen, seenAt>>
    /\ UNCHANGED <<svcVars, calls>>

\* a close() that uses its handles without testing them
CloseUnguarded(b, open, fail) == [open |-> FALSE, raised |-> ~open]

\* close(): PostgreSQLJobTracker tests its handles, catches what close_all()
\* and dispose() raise and clears engine and SessionLocal in a finally block;
\* RocksDBJobTracker tests and clears _db; SQLiteJobTracker only disposes of
\* the engine's pool, inside try/except, and keeps engine and SessionLocal
CloseHandles(b, open, fail) ==
    IF b = "sqlite" THEN [open |-> open, raised |-> FALSE]
    ELSE [open |-> FALSE, raised |-> FALSE]

\* close(), n counting up to two calls in a row
Close ==
    \E fail \in FailModes :
        LET res == CloseHandles(backend, isOpen, fail)
        IN  /\ isOpen' = res.open
            /\ ret' = [NoCall EXCEPT !.op = "close", !.at = now, !.raised = res.raised,
                                      !.n = IF ret.op = "close" THEN 2 ELSE 1]
            /\ UNCHANGED <<backend, rows, kv, failed, now, ticks, seen, seenAt>>
            /\ UNCHANGED <<svcVars, calls>>

StoreNext ==
    \/ \E d \in TickSteps : Tick(d)
    \/ \E id \in JobIds \cup BadIds, given \in Carried, fail \in FailModes,
          via \in Vias : DoSeen(id, given, fail, via)
    \/ \E id \in JobIds, fail \in FailModes : ShouldProcess(id, fail)
    \/ \E days \in DaysToKeep, fail \in FailModes : CleanupOldHistory(days, fail)
    \/ Close

SpecStore == StoreInit /\ [][StoreNext]_vars

----------------------------------------------------------------------------
(* Claims about the staleness cache *)

\* C1: for every id for which no do_seen has been committed, should_process
\* returns true, whatever else the store holds.
C1_TrueBeforeAnySeen ==
    (ret.op = "should_process" /\ seenAt[ret.id] = Never)
        => (ret.bool /\ ~ret.raised)

\* C2: after do_seen(id) committed at t0, should_process(id) at t returns true
\* iff t - t0 > threshold, whatever last_visited_at the data carried.
C2_StaleIffOlderThanThreshold ==
    (ret.op = "should_process" /\ ~ret.failedIO /\ seenAt[ret.id] # Never)
        => (ret.bool <=> (ret.at - seenAt[ret.id] > StaleThreshold))

\* C3: two do_seen calls for one id leave exactly one latest row and two more
\* history rows than before, for any two clock readings.
C3_TwoSeenTwoHistoryRows ==
    (ret.op = "do_seen" /\ ret.n = 2 /\ ret.clean)
        => (HistCount(ret.id) = ret.base + 2 /\ LatestCount(ret.id) = 1)

\* C7: cleanup_old_history(d) deletes exactly the history rows older than
\* now - d days, returns their number and leaves every latest row unchanged.
C7_CleanupDeletesOnlyOldHistory ==
    [][\A days \in DaysToKeep :
          CleanupOldHistory(days, "none") /\ isOpen
            => /\ AbsLatest' = AbsLatest
               /\ AbsHistory' = {h \in AbsHistory : h.at >= now - days * SecondsPerDay}
               /\ ret'.num = Cardinality(AbsHistory) - Cardinality(AbsHistory')]_vars

\* C8: whenever the storage read fails (error, closed store), should_process
\* returns true and raises nothing.
C8_FailOpen ==
    (ret.op = "should_process" /\ ret.failedIO) => (ret.bool /\ ~ret.raised)

\* C9: do_seen with an empty id (None or "") signals an error to the caller
\* and writes neither a latest nor a history row.
C9_EmptyIdRejected ==
    [][\A id \in BadIds, via \in Vias :
          DoSeen(id, Absent, "none", via)
            => (ret'.raised /\ rows' = rows /\ kv' = kv)]_vars

\* C29: a step that is not cleanup_old_history leaves every history row as
\* it is: do_seen, at any clock reading, modifies and deletes none.
C29_HistoryAppendOnly ==
    [][\/ \E days \in DaysToKeep, fail \in FailModes : CleanupOldHistory(days, fail)
       \/ /\ {r \in rows : r.entry_type = "history"} \subseteq rows'
          /\ {e \in kv : e.kind = "history"} \subseteq kv']_vars

\* C34: a do_seen call writes the latest row and the new history row, or
\* neither of them.
C34_BothWritesOrNeither ==
    [][seen' = seen + 1
          => /\ ({r \in rows' : r.entry_type = "latest"} # {r \in rows : r.entry_type = "latest"})
                   <=> ({r \in rows' : r.entry_type = "history"} # {r \in rows : r.entry_type = "history"})
             /\ ({e \in kv' : e.kind = "latest"} # {e \in kv : e.kind = "latest"})
                   <=> ({e \in kv' : e.kind = "history"} # {e \in kv : e.kind = "history"})]_vars

----------------------------------------------------------------------------
(* The scraping service: run_scraping and what it calls *)

storeRest == <<backend, isOpen, rows, kv, failed, ticks, seen, seenAt, ret>>

\* a handler that catches every exception, CancelledError included
CatchesAll(exc) == TRUE

\* `except Exception` catches every exception but CancelledError, which
\* derives from BaseException
IsException(exc) == exc # "CancelledError"

\* should_find_job_details(job): the stored document and the clock decide
ShouldFindJobDetails(docs, uid, t) ==
    IF docs[uid] = Never THEN TRUE
    ELSE t - docs[uid] > StalenessThresholdSeconds

\* run_scraping after _process_search_url has returned or its exception was
\* logged: the second quota check
AfterSearchUrl(found) ==
    IF Len(found) >= max_jobs THEN "returned" ELSE "delay_run"

\* new_job_urls[:remaining_slots]
Slice(q, n) == SubSeq(q, 1, IF n < Len(q) THEN n ELSE Len(q))

\* a release that leaves the tab alone
LeaveTab(t, how) == t

\* _safe_close_tab(tab) for a tab that behaves as `how` says
SafeCloseTab(t, how) ==
    CASE how = "is_closed" ->
           [t EXCEPT !.open = FALSE, !.released = TRUE]
      [] how = "closed" ->
           [t EXCEPT !.open = FALSE, !.released = TRUE,
                       !.closeCalls = t.closeCalls + 1]
      [] how = "quit" ->
           [t EXCEPT !.open = FALSE, !.released = TRUE,
                       !.closeCalls = t.closeCalls + 1,
                       !.quitCalls = t.quitCalls + 1]
      [] how = "quit_raises" ->
           [t EXCEPT !.released = TRUE, !.cleanupError = TRUE,
                       !.closeCalls = t.closeCalls + 1,
                       !.quitCalls = t.quitCalls + 1]
      [] OTHER ->
           [t EXCEPT !.released = TRUE, !.cleanupError = TRUE,
                       !.closeCalls = t.closeCalls + 1]

SvcInit ==
    /\ backend = "postgres"
    /\ isOpen = TRUE
    /\ rows = {}
    /\ kv = {}
    /\ failed = <<>>
    /\ now = 0
    /\ ticks = 0
    /\ seen = 0
    /\ seenAt = [id \in JobIds |-> Never]
    /\ ret = NoCall
    /\ calls = NoCalls
    /\ max_jobs \in Quotas
    /\ ServiceIdle
    /\ ApiIdle
    /\ RunnerIdle
    /\ DriverIdle
    /\ Initialized

\* run_scraping(search_urls) is called on the initialized service
RunScraping ==
    /\ pc = "idle"
    /\ pc' = "loop"
    /\ UNCHANGED <<max_jobs, cancelRequested, delivered, index, job_list, cursor,
                   new_job_urls, comprehensive_jobs_found, individual_jobs,
                   job_list_db, pushed, tab, opens, openTabs, cleanupErrors, thrown, now>>
    /\ UNCHANGED <<storeRest, runner, calls, driverVars, summary, cleanupVars, bypass, waited,
                   total_jobs_processed, mainLoop, api>>

\* task.cancel() from the signal handler while the task runs
Cancel ==
    /\ pc \notin {"idle"} \cup Ended
    /\ ~cancelRequested /\ ~delivered
    /\ cancelRequested' = TRUE
    /\ UNCHANGED <<pc, max_jobs, delivered, index, job_list, cursor,
                   new_job_urls, comprehensive_jobs_found, individual_jobs,
                   job_list_db, pushed, tab, opens, openTabs, cleanupErrors, thrown, now>>
    /\ UNCHANGED <<storeRest, runner, calls, driverVars, summary, cleanupVars, bypass, waited,
                   total_jobs_processed, mainLoop, api>>

\* handle_cloudflare_detection(retry_attempts) when the next `failures` calls
\* of detect_and_bypass_cloudflare raise: the exception it ends with
RECURSIVE HandleCloudflareDetection(_, _)
HandleCloudflareDetection(retry_attempts, failures) ==
    IF failures = 0 THEN "none"
    ELSE IF retry_attempts > 0
         THEN HandleCloudflareDetection(retry_attempts - 1, failures - 1)
         ELSE "Exception"

\* a handler that lets the exception of wait_for through
WaitForRaises(exc) == IF exc = "found" THEN "none" ELSE exc

\* the handler around driver.wait_for, on the listing page and on the
\* detail page: what is left of the way the wait has ended
AfterWaitFor(exc) ==
    IF exc = "found" THEN "none"
    ELSE IF IsException(exc) THEN "none"
    ELSE exc

\* _process_search_url's handler around handle_cloudflare_detection: what
\* is left of the exception
AfterBypass(exc) == IF exc # "none" /\ IsException(exc) THEN "none" ELSE exc

\* the head of run_scraping's loop, and _process_search_url up to the list
\* that _extract_job_urls_from_page returns
NextSearchUrl(load, took, failures, wait, listing) ==
    /\ pc = "loop"
    /\ IF index = Len(SearchUrls) \/ Len(comprehensive_jobs_found) >= max_jobs
       THEN /\ pc' = "returned"
            /\ UNCHANGED <<index, job_list, cursor, new_job_urls, now, waited>>
       ELSE /\ index' = index + 1
            /\ now' = now + took
            /\ CASE load = "CloudflareDetectionException" ->
                      /\ pc' = "raised"
                      /\ waited' = "none"
                      /\ UNCHANGED <<job_list, cursor, new_job_urls>>
                 [] load = "Exception" ->
                      /\ pc' = AfterSearchUrl(comprehensive_jobs_found)
                      /\ waited' = "none"
                      /\ UNCHANGED <<job_list, cursor, new_job_urls>>
                 [] AfterBypass(HandleCloudflareDetection(RetryAttempts,
                                                          failures)) # "none" ->
                      /\ pc' = AfterSearchUrl(comprehensive_jobs_found)
                      /\ waited' = "none"
                      /\ UNCHANGED <<job_list, cursor, new_job_urls>>
                 [] AfterWaitFor(wait) # "none" ->
                      /\ waited' = wait
                      /\ pc' = AfterSearchUrl(comprehensive_jobs_found)
                      /\ UNCHANGED <<job_list, cursor, new_job_urls>>
                 [] OTHER ->
                      /\ waited' = wait
                      /\ job_list' = listing
                      /\ cursor' = 1
                      /\ new_job_urls' = <<>>
                      /\ pc' = IF listing = <<>> THEN "queue" ELSE "scan"
    /\ UNCHANGED <<max_jobs, cancelRequested, delivered, comprehensive_jobs_found,
                   individual_jobs, job_list_db, pushed, tab, opens, openTabs,
                   cleanupErrors, thrown>>
    /\ UNCHANGED <<storeRest, runner, calls, driverVars, summary, cleanupVars, bypass,
                   total_jobs_processed, mainLoop, api>>

\* one turn of _process_search_url's first loop: should_find_job_details,
\* then save_job_listing_details
ScanJob(io, applied) ==
    /\ pc = "scan"
    /\ LET job == job_list[cursor]
       IN  IF cancelRequested
           THEN /\ pc' = "cancelled"
                /\ delivered' = TRUE
                /\ cancelRequested' = FALSE
                /\ job_list_db' = IF applied THEN job_list_db \cup {job}
                                  ELSE job_list_db
                /\ UNCHANGED cursor
           ELSE IF io = "Exception"
           THEN /\ pc' = AfterSearchUrl(comprehensive_jobs_found)
                /\ UNCHANGED <<delivered, cancelRequested, job_list_db, cursor>>
           ELSE /\ job_list_db' = job_list_db \cup {job}
                /\ pc' = IF cursor = Len(job_list) THEN "queue" ELSE "scan"
                /\ cursor' = IF cursor = Len(job_list) THEN 1 ELSE cursor + 1
                /\ UNCHANGED <<delivered, cancelRequested>>
    /\ UNCHANGED <<max_jobs, index, job_list, new_job_urls,
                   comprehensive_jobs_found, individual_jobs, pushed, tab, opens, openTabs,
                   cleanupErrors, thrown, now>>
    /\ UNCHANGED <<storeRest, runner, calls, driverVars, summary, cleanupVars, bypass, waited,
                   total_jobs_processed, mainLoop, api>>

\* a filter that lets every candidate through
QueuedAnyway(q, job, should_process) == Append(q, job)

\* new_job_urls after one candidate has gone through the filter: `continue`
\* unless should_find_job_details returned true, else new_job_urls.append(job)
Queued(q, job, should_process) ==
    IF should_process THEN Append(q, job) ELSE q

\* one turn of _process_search_url's second loop: the staleness filter
QueueJob(io) ==
    /\ pc = "queue"
    /\ cursor <= Len(job_list)
    /\ LET job == job_list[cursor]
       IN  IF cancelRequested
           THEN /\ pc' = "cancelled"
                /\ delivered' = TRUE
                /\ cancelRequested' = FALSE
                /\ UNCHANGED <<cursor, new_job_urls>>
           ELSE IF io = "Exception"
           THEN /\ pc' = AfterSearchUrl(comprehensive_jobs_found)
                /\ UNCHANGED <<delivered, cancelRequested, cursor, new_job_urls>>
           ELSE /\ new_job_urls' =
                      Queued(new_job_urls, job,
                             ShouldFindJobDetails(individual_jobs, job, now))
                /\ cursor' = cursor + 1
                /\ UNCHANGED <<pc, delivered, cancelRequested>>
    /\ UNCHANGED <<max_jobs, index, job_list, comprehensive_jobs_found,
                   individual_jobs, job_list_db, pushed, tab, opens, openTabs, cleanupErrors, thrown, now>>
    /\ UNCHANGED <<storeRest, runner, calls, driverVars, summary, cleanupVars, bypass, waited,
                   total_jobs_processed, mainLoop, api>>

\* the end of _process_search_url: the queue is cut to the remaining slots
QueueDetailPages ==
    /\ pc = "queue"
    /\ cursor > Len(job_list)
    /\ LET left == max_jobs - Len(comprehensive_jobs_found)
           remaining_slots == IF left > 0 THEN left ELSE 0
       IN  IF remaining_slots = 0
           THEN /\ pc' = AfterSearchUrl(comprehensive_jobs_found)
                /\ UNCHANGED <<new_job_urls, cursor>>
           ELSE /\ new_job_urls' = Slice(new_job_urls, remaining_slots)
                /\ cursor' = 1
                /\ pc' = "detail"
    /\ UNCHANGED <<max_jobs, cancelRequested, delivered, index, job_list,
                   comprehensive_jobs_found, individual_jobs, job_list_db,
                   pushed, tab, opens, openTabs, cleanupErrors, thrown, now>>
    /\ UNCHANGED <<storeRest, runner, calls, driverVars, summary, cleanupVars, bypass, waited,
                   total_jobs_processed, mainLoop, api>>

\* a batch loop without a handler: the exception leaves the batch and is
\* logged by run_scraping
NoBatchHandler(exc) ==
    IF exc = "none" THEN "detail"
    ELSE IF exc = "CancelledError" THEN "cancelled"
    ELSE AfterSearchUrl(comprehensive_jobs_found)

\* where the task stands after _process_single_job_url has ended with exc:
\* the handlers of _process_job_urls_individually re-raise CancelledError,
\* which run_scraping re-raises too, and log any Exception
AfterSingleJob(exc) ==
    IF exc = "none" THEN "detail"
    ELSE IF exc = "CancelledError" THEN "cancelled"
    ELSE IF IsException(exc) THEN "detail"
    ELSE "raised"

\* the uids held by comprehensive_jobs_found
Members(q) == {q[i] : i \in 1..Len(q)}

\* the head of _process_job_urls_individually's loop, and
\* _process_single_job_url up to open_link_in_new_tab; when that raises, the
\* handler pushes the stub (push_data can raise in its turn) and the finally
\* block finds no tab
OpenJobUrl(open, push) ==
    /\ pc = "detail"
    /\ IF cursor > Len(new_job_urls)
          \/ Len(comprehensive_jobs_found) >= max_jobs
       THEN /\ pc' = "delay_page"
            /\ UNCHANGED <<tab, opens, openTabs, pushed, cursor>>
       ELSE LET job == new_job_urls[cursor]
            IN  IF open = "tab"
                THEN /\ tab' = NewTab(job)
                     /\ opens' = opens + 1
                     /\ openTabs' = openTabs + 1
                     /\ pc' = "extract"
                     /\ UNCHANGED <<pushed, cursor>>
                ELSE /\ pushed' = IF push = "ok" THEN pushed \cup {job}
                                    ELSE pushed
                     /\ pc' = AfterSingleJob(IF push = "ok" THEN "none" ELSE push)
                     /\ cursor' = IF pc' = "detail" THEN cursor + 1 ELSE cursor
                     /\ tab' = NoTab
                     /\ UNCHANGED <<opens, openTabs>>
    /\ UNCHANGED <<max_jobs, cancelRequested, delivered, index, job_list,
                   new_job_urls, comprehensive_jobs_found, individual_jobs,
                   job_list_db, cleanupErrors, thrown, now>>
    /\ UNCHANGED <<storeRest, runner, calls, driverVars, summary, cleanupVars, bypass, waited,
                   total_jobs_processed, mainLoop, api>>

\* a detail attempt that stores a record however it ends
SavedAnyway(docs, uid, t, written) == [docs EXCEPT ![uid] = t]

\* individual_jobs after the detail attempt: save_individual_job_details
\* sets the document with scrape_metadata.last_visited_at = now when the
\* attempt got as far as the set() and the set() was applied
SaveIndividualJobDetails(docs, uid, t, written) ==
    IF written THEN [docs EXCEPT ![uid] = t] ELSE docs

\* deque(maxlen=max_jobs_cap).append(uid): a full deque drops its oldest
\* entry
DequeAppend(q, uid, cap) ==
    IF Len(q) >= cap THEN Append(Tail(q), uid) ELSE Append(q, uid)

\* a tracker that appends without the membership test
TrackedAnyway(q, uid, quota) ==
    DequeAppend(q, uid, IF quota > 1 THEN quota ELSE 1)

\* comprehensive_jobs_found after a saved detail record: the uid is appended
\* unless it is in the deque; max_jobs_cap = max(1, max_jobs)
Tracked(q, uid, quota) ==
    IF uid \in Members(q) THEN q
    ELSE DequeAppend(q, uid, IF quota > 1 THEN quota ELSE 1)

\* the rest of _process_single_job_url:
\* _extract_and_push_comprehensive_job_from_tab on the opened tab, then the
\* finally block.  The Firestore set() is the one await that suspends.
ExtractAndPush(wait, ext, save, applied, how) ==
    /\ pc = "extract"
    /\ waited' = wait
    /\ LET job == new_job_urls[cursor]
           closing == SafeCloseTab(tab, how)
           atWait == AfterWaitFor(wait)
           awaited == atWait = "none" /\ ext = "dict"
           atSave == IF ~awaited THEN "none"
                     ELSE IF cancelRequested THEN "CancelledError"
                     ELSE IF save = "Exception" THEN "Exception"
                     ELSE "none"
           inner == IF atWait # "none" THEN atWait
                    ELSE IF ext = "Exception" THEN "Exception" ELSE atSave
           escapes == IF inner # "none" /\ ~IsException(inner)
                      THEN inner ELSE "none"
           written == awaited /\ (atSave = "none"
                                  \/ (atSave = "CancelledError" /\ applied))
           saved == awaited /\ atSave = "none"
       IN  /\ individual_jobs' = SaveIndividualJobDetails(individual_jobs, job,
                                                         now, written)
           /\ comprehensive_jobs_found' =
                 IF saved THEN Tracked(comprehensive_jobs_found, job, max_jobs)
                 ELSE comprehensive_jobs_found
           /\ total_jobs_processed' =
                 IF saved /\ job \notin Members(comprehensive_jobs_found)
                 THEN total_jobs_processed + 1 ELSE total_jobs_processed
           /\ thrown' = IF atWait = "none" /\ ext \in {"None", "Exception"}
                        THEN thrown \cup {job} ELSE thrown
           /\ tab' = closing
           /\ openTabs' = IF closing.open THEN openTabs ELSE openTabs - 1
           /\ cleanupErrors' = IF closing.cleanupError
                               THEN cleanupErrors + 1 ELSE cleanupErrors
           /\ delivered' = (delivered \/ atSave = "CancelledError")
           /\ cancelRequested' = IF atSave = "CancelledError"
                                 THEN FALSE ELSE cancelRequested
           /\ pc' = AfterSingleJob(escapes)
           /\ cursor' = IF pc' = "detail" THEN cursor + 1 ELSE cursor
    /\ UNCHANGED <<max_jobs, index, job_list, new_job_urls, job_list_db,
                   pushed, opens, now>>
    /\ UNCHANGED <<storeRest, runner, calls, driverVars, summary, cleanupVars, bypass, mainLoop, api>>

\* _apply_random_delay(), at the end of _process_search_url and at the end
\* of a turn of run_scraping's loop
ApplyRandomDelay(d) ==
    /\ pc \in {"delay_page", "delay_run"}
    /\ IF cancelRequested
       THEN /\ pc' = "cancelled"
            /\ delivered' = TRUE
            /\ cancelRequested' = FALSE
            /\ UNCHANGED now
       ELSE /\ now' = now + d
            /\ pc' = IF pc = "delay_page"
                     THEN AfterSearchUrl(comprehensive_jobs_found)
                     ELSE "loop"
            /\ UNCHANGED <<delivered, cancelRequested>>
    /\ UNCHANGED <<max_jobs, index, job_list, cursor, new_job_urls,
                   comprehensive_jobs_found, individual_jobs, job_list_db,
                   pushed, tab, opens, openTabs, cleanupErrors, thrown>>
    /\ UNCHANGED <<storeRest, runner, calls, driverVars, summary, cleanupVars, bypass, waited,
                   total_jobs_processed, mainLoop, api>>

\* a runner that logs whatever ends the iteration and starts the next one
RunnerRestarts(exc) == "restart"

\* the exception run_scraping has ended with
EndedWith ==
    CASE pc = "cancelled" -> "CancelledError"
      [] pc = "raised" -> "CloudflareDetectionException"
      [] OTHER -> "none"

\* run_main_with_shutdown after `await _main_task` has ended with exc: the
\* Cloudflare exception is logged and the loop goes on, CancelledError is
\* re-raised to asyncio.run, any other exception ends the runner with 1
RunnerAfter(exc) ==
    CASE exc = "none" -> "restart"
      [] exc = "CloudflareDetectionException" -> "restart"
      [] exc = "CancelledError" -> "exit_cancelled"
      [] OTHER -> "exit_error"

\* run_main_with_shutdown: `await _main_task` ends with what run_scraping
\* ended with, when run_main_with_shutdown is the caller of the run
AwaitMainTask ==
    /\ pc \in Ended
    /\ runner = "awaiting"
    /\ summary = MainRunning
    /\ runner' = RunnerAfter(EndedWith)
    /\ UNCHANGED <<pc, max_jobs, cancelRequested, delivered, index, job_list,
                   cursor, new_job_urls, comprehensive_jobs_found,
                   individual_jobs, job_list_db, pushed, tab, opens, openTabs,
                   cleanupErrors, thrown, now>>
    /\ UNCHANGED <<storeRest, calls, driverVars, summary, cleanupVars, bypass, waited,
                   total_jobs_processed, mainLoop, api>>

\* main() after `await service.run_scraping(search_urls)` has ended with exc
\* and data_store.set_value behaves as `store` says: RUN_SUMMARY after a
\* normal return; `except Exception` stores ERROR_SUMMARY and re-raises;
\* CancelledError is no Exception and passes through both handlers
MainAfter(exc, store) ==
    IF exc = "none"
    THEN IF store = "ok" THEN [stored |-> "RUN_SUMMARY", raised |-> "none"]
         ELSE [stored |-> "none", raised |-> "Exception"]
    ELSE IF IsException(exc)
    THEN [stored |-> IF store = "ok" THEN "ERROR_SUMMARY" ELSE "none", raised |-> exc]
    ELSE [stored |-> "none", raised |-> exc]

\* main(): the code after run_scraping and its exception handlers, when
\* main() and not run_main_with_shutdown is the caller of the run
MainEnds(store) ==
    /\ pc \in Ended
    /\ summary = MainRunning
    /\ runner = "awaiting"
    /\ summary' = MainAfter(EndedWith, store)
    /\ UNCHANGED <<pc, max_jobs, cancelRequested, delivered, index, job_list,
                   cursor, new_job_urls, comprehensive_jobs_found,
                   individual_jobs, job_list_db, pushed, tab, opens, openTabs,
                   cleanupErrors, thrown, now>>
    /\ UNCHANGED <<storeRest, runner, calls, driverVars, cleanupVars, bypass, waited,
                   total_jobs_processed, mainLoop, api>>

SvcNext ==
    \/ RunScraping
    \/ Cancel
    \/ \E load \in PageLoads, took \in LoadSeconds,
          failures \in BypassFailures, wait \in WaitForOutcomes,
          listing \in Listings :
          NextSearchUrl(load, took, failures, wait, listing)
    \/ \E io \in SaveOutcomes, applied \in BOOLEAN : ScanJob(io, applied)
    \/ \E io \in SaveOutcomes : QueueJob(io)
    \/ QueueDetailPages
    \/ \E open \in OpenOutcomes, push \in SaveOutcomes : OpenJobUrl(open, push)
    \/ \E wait \in WaitForOutcomes, ext \in ExtractOutcomes,
          save \in SaveOutcomes, applied \in BOOLEAN, how \in CloseOutcomes :
          ExtractAndPush(wait, ext, save, applied, how)
    \/ \E d \in DelaySeconds : ApplyRandomDelay(d)
    \/ AwaitMainTask
    \/ \E store \in SaveOutcomes : MainEnds(store)

SpecSvc == SvcInit /\ [][SvcNext]_vars

----------------------------------------------------------------------------
(* Claims about the scraping service *)

\* a failed_job_entries row for the uid
FailedFor(uid) == \E i \in 1..Len(failed) : failed[i].job_id = <<uid>>

\* C4: over one run with quota max_jobs and any number of search URLs, the
\* number of detail tabs opened is at most max_jobs, whether the tabs end in
\* success or in failure.
C4_TabsWithinQuota == opens <= max_jobs

C6_FailureRecorded ==
    pc = "returned" =>
        \A u \in thrown :
            /\ FailedFor(u)
            /\ individual_jobs[u] # Never => u \in Members(comprehensive_jobs_found)

C11_ExceptionKeepsBatch ==
    [][/\ (pc \in {"detail", "extract"} /\ pc' \notin {"detail", "extract"})
           => \/ pc' = "cancelled"
              \/ cursor > Len(new_job_urls)
              \/ Len(comprehensive_jobs_found) >= max_jobs
       /\ (pc \in {"detail", "extract"} /\ pc' \in {"detail", "extract"})
           => cursor' \in {cursor, cursor + 1}]_vars

\* C11 case: the first candidate of a batch failed and the second one has
\* its tab opened.
C11_NextCandidateOpened ==
    /\ pc = "extract"
    /\ index = 1
    /\ cursor = 2
    /\ new_job_urls[1] \in thrown \cup pushed

\* C12: when navigation to a search URL raises the Cloudflare detection
\* exception, or the bypass fails on every retry, the URL is skipped (no job
\* list is taken from it) and run_scraping goes on with its loop.
C12_BlockedUrlSkipped ==
    [][\A load \in PageLoads, took \in LoadSeconds, failures \in BypassFailures,
          wait \in WaitForOutcomes, listing \in Listings :
          (/\ NextSearchUrl(load, took, failures, wait, listing)
           /\ index' = index + 1
           /\ \/ load = "CloudflareDetectionException"
              \/ load = "ok" /\ HandleCloudflareDetection(RetryAttempts,
                                                          failures) # "none")
          => pc' = AfterSearchUrl(comprehensive_jobs_found)]_vars

\* C13: once CancelledError has been thrown into the task, run_scraping has
\* ended with it, the runner is still awaiting the task or has re-raised the
\* cancellation, and no further search URL or candidate is processed.
C13_CancellationNotSwallowed ==
    [][delivered' =>
          /\ pc' = "cancelled"
          /\ runner' \in {"awaiting", "exit_cancelled"}
          /\ delivered => /\ index' = index
                          /\ cursor' = cursor
                          /\ opens' = opens
                          /\ job_list_db' = job_list_db
                          /\ individual_jobs' = individual_jobs]_vars

\* C13 case: a cancellation delivered during the run has reached the runner.
C13_CancelReachedRunner ==
    /\ delivered
    /\ index >= 1
    /\ runner = "exit_cancelled"

\* C21: when main() has ended it has stored a summary, and it has stored an
\* error summary or ended with an exception only when the run was cancelled.
C21_RunEndsWithSummary ==
    summary # MainRunning
    => /\ summary.stored \in {"RUN_SUMMARY", "ERROR_SUMMARY"}
       /\ (summary.stored = "ERROR_SUMMARY" \/ summary.raised # "none") => delivered

\* C23: once task.cancel() has been called and until CancelledError is
\* delivered, no further search URL is navigated to, no queue is handed to
\* the detail batch, no detail tab is opened and no delay is slept.
C23_CancelObservedAtBoundary ==
    [][cancelRequested
          => /\ index' = index
             /\ opens' = opens
             /\ pc = "queue" => pc' # "detail"
             /\ pc \in {"delay_page", "delay_run"} => now' = now]_vars

\* C24: when run_scraping has ended, the quota is exhausted, or the run was
\* cancelled, or every search URL of the list has been visited.
C24_StopsForThreeReasons ==
    pc \in Ended
    => \/ Len(comprehensive_jobs_found) >= max_jobs
       \/ delivered
       \/ index = Len(SearchUrls)

\* C26: once the scan of a listing page is over, every stub extracted from
\* the page is in the listing store, also when a staleness check of the
\* scan has raised.
C26_EveryStubPersisted ==
    (pc \notin {"scan", "cancelled"} /\ ~delivered)
    => \A i \in 1..Len(job_list) : job_list[i] \in job_list_db

\* C27: a detail tab is opened only for a candidate of the queue, and the
\* queue takes a candidate only in the filter loop and only when
\* should_find_job_details holds for it there; a candidate that is fresh
\* when it is filtered is not queued.
C27_OnlyFilteredOpened ==
    [][/\ Len(new_job_urls') > Len(new_job_urls)
            => /\ pc = "queue"
               /\ cursor <= Len(job_list)
               /\ new_job_urls' = Append(new_job_urls, job_list[cursor])
               /\ ShouldFindJobDetails(individual_jobs, job_list[cursor], now)
       /\ pc' = "queue"
            => \A i \in 1..Len(new_job_urls') :
                   ShouldFindJobDetails(individual_jobs', new_job_urls'[i], now')
       /\ opens' # opens
            => /\ pc = "detail"
               /\ tab'.uid \in Members(new_job_urls)]_vars

C27_FreshCandidateLeftOut ==
    /\ pc = "extract"
    /\ \E i \in 1..Len(job_list) :
          /\ job_list[i] \notin Members(new_job_urls)
          /\ individual_jobs[job_list[i]] # Never

\* C28: a detail record is created or overwritten only by a detail attempt
\* whose extraction returned a record, and only the record of the attempt's
\* id; the listing scan, the filter, a raising extraction and an extraction
\* that returns None leave every detail record as it is.  (An attempt that
\* is cancelled while its set() is in flight may still have stored the
\* record.)
C28_LatestOnlyByExtraction ==
    [][individual_jobs' # individual_jobs
          => /\ pc = "extract"
             /\ individual_jobs' =
                    [individual_jobs EXCEPT ![new_job_urls[cursor]] = now]
             /\ \E wait \in WaitForOutcomes, save \in SaveOutcomes,
                   applied \in BOOLEAN, how \in CloseOutcomes :
                    ExtractAndPush(wait, "dict", save, applied, how)
             /\ ~ \E wait \in WaitForOutcomes, ext \in {"None", "Exception"},
                     save \in SaveOutcomes, applied \in BOOLEAN,
                     how \in CloseOutcomes :
                      ExtractAndPush(wait, ext, save, applied, how)]_vars

C28_StoredAndLeftAlone ==
    \E stored \in Uids, other \in Uids :
        /\ stored \in Members(comprehensive_jobs_found)
        /\ individual_jobs[stored] # Never
        /\ other \in thrown
        /\ individual_jobs[other] = Never

\* C28 as stated: a cancelled attempt changes no detail record
C28_CancelledChangesNothing ==
    [][(pc = "extract" /\ pc' = "cancelled")
          => individual_jobs' = individual_jobs]_vars

\* C31: when driver.wait_for times out on a listing page, the stubs are
\* still extracted from the page and the scan starts; when it times out on
\* a detail page, the extraction still runs and its result is handled as
\* after a wait that found the element; the run goes on in both cases.
C31_TimeoutProceeds ==
    [][/\ (pc = "loop" /\ index' = index + 1 /\ waited' = "Exception")
             => /\ pc' = IF job_list' = <<>> THEN "queue" ELSE "scan"
                /\ job_list' \in Listings
                /\ new_job_urls' = <<>>
       /\ (pc = "extract" /\ waited' = "Exception")
             => \A ext \in ExtractOutcomes, save \in SaveOutcomes,
                   applied \in BOOLEAN, how \in CloseOutcomes :
             ExtractAndPush("Exception", ext, save, applied, how)
             => /\ pc' \in {"detail", "cancelled"}
                /\ (ext = "dict" /\ save = "ok" /\ ~cancelRequested)
                      => /\ individual_jobs'[new_job_urls[cursor]] = now
                         /\ new_job_urls[cursor] \in Members(comprehensive_jobs_found')
                /\ ext \in {"None", "Exception"}
                      => new_job_urls[cursor] \in thrown']_vars

C31_SavedAfterTimeout ==
    /\ waited = "Exception"
    /\ pc = "detail"
    /\ \E u \in Uids : /\ u \in Members(comprehensive_jobs_found)
                       /\ individual_jobs[u] = now

\* C33: comprehensive_jobs_found holds no uid twice and at most max_jobs
\* uids, _total_jobs_processed is its length, no uid ever leaves it, and a
\* uid enters it only in the step that has saved its detail record.
C33_ProcessedIdsConsistent ==
    [][/\ \A i, j \in 1..Len(comprehensive_jobs_found') :
             comprehensive_jobs_found'[i] = comprehensive_jobs_found'[j] => i = j
       /\ Len(comprehensive_jobs_found') <= max_jobs'
       /\ total_jobs_processed' = Len(comprehensive_jobs_found')
       /\ Len(comprehensive_jobs_found) <= Len(comprehensive_jobs_found')
       /\ SubSeq(comprehensive_jobs_found', 1, Len(comprehensive_jobs_found))
             = comprehensive_jobs_found
       /\ comprehensive_jobs_found' # comprehensive_jobs_found
             => /\ pc = "extract"
                /\ comprehensive_jobs_found' =
                      Append(comprehensive_jobs_found, new_job_urls[cursor])
                /\ individual_jobs'[new_job_urls[cursor]] = now]_vars

C33_QuotaFilled ==
    /\ max_jobs = 2
    /\ Len(comprehensive_jobs_found) = 2
    /\ total_jobs_processed = 2
    /\ pc = "returned"

----------------------------------------------------------------------------
(* do_seen called by several callers at once *)

\* the last_visited_at values the concurrent callers submit
ConcCarried == {Absent, StrV(0)}

\* a commit that does not enforce the primary key of the latest row
CommitWithoutKey(rs, id, data, saw, t) ==
    rs \cup {[job_id |-> id, entry_type |-> "latest", timestamp |-> LatestTs,
              data |-> data, last_visited_at |-> t],
             [job_id |-> id, entry_type |-> "history",
              timestamp |-> HistoryTimestamp(t),
              data |-> data, last_visited_at |-> t]}

\* The second half of the session of do_seen, for a caller whose query found
\* a latest row (saw) or none: the row is updated or inserted, the history
\* row is inserted, and the commit fails as a whole on a primary key that
\* another session has taken meanwhile.
RelCommit(rs, id, data, saw, t) ==
    LET latest == [job_id |-> id, entry_type |-> "latest", timestamp |-> LatestTs,
                   data |-> data, last_visited_at |-> t]
        history == [job_id |-> id, entry_type |-> "history",
                    timestamp |-> HistoryTimestamp(t),
                    data |-> data, last_visited_at |-> t]
        taken(row) == \E r \in rs : /\ r.job_id = row.job_id
                                    /\ r.entry_type = row.entry_type
                                    /\ r.timestamp = row.timestamp
    IN  IF ~saw /\ taken(latest) THEN rs
        ELSE IF taken(history) THEN rs
        ELSE (rs \ LatestRows(rs, id)) \cup {latest, history}

ConcInit == StoreInit

\* a caller enters do_seen: the record is normalized and, in the relational
\* back ends, the latest row is queried
BeginSeen(p, id, given) ==
    /\ calls[p].stage = "idle"
    /\ isOpen
    /\ calls' = [calls EXCEPT ![p] =
                    [stage |-> "began", id |-> id,
                     data |-> [job_id |-> id,
                               last_visited_at |->
                                   IF backend = "rocksdb"
                                   THEN RocksNormalize(given, now)
                                   ELSE RelNormalize(given, now)],
                     saw |-> (backend \in Relational
                              /\ LatestRows(rows, id) # {}),
                     ok |-> FALSE]]
    /\ UNCHANGED <<backend, isOpen, rows, kv, failed, now, ticks, seen, seenAt,
                   ret>>
    /\ UNCHANGED svcVars

\* the caller's session commits (relational back ends)
CommitSeen(p) ==
    /\ calls[p].stage = "began"
    /\ backend \in Relational
    /\ rows' = RelCommit(rows, calls[p].id, calls[p].data, calls[p].saw, now)
    /\ calls' = [calls EXCEPT ![p].stage = "done", ![p].ok = (rows' # rows)]
    /\ UNCHANGED <<backend, isOpen, kv, failed, now, ticks, seen, seenAt, ret>>
    /\ UNCHANGED svcVars

\* the caller's first put: the latest key (RocksDB)
PutLatest(p) ==
    /\ calls[p].stage = "began"
    /\ backend = "rocksdb"
    /\ kv' = KvPut(kv, LatestKey(calls[p].id), calls[p].data, "latest",
                   calls[p].id, now)
    /\ calls' = [calls EXCEPT ![p].stage = "latest_put"]
    /\ UNCHANGED <<backend, isOpen, rows, failed, now, ticks, seen, seenAt, ret>>
    /\ UNCHANGED svcVars

\* the caller's second put: the history key (RocksDB)
PutHistory(p) ==
    /\ calls[p].stage = "latest_put"
    /\ kv' = KvPut(kv, HistoryKey(calls[p].id, now), calls[p].data, "history",
                   calls[p].id, now)
    /\ calls' = [calls EXCEPT ![p].stage = "done", ![p].ok = TRUE]
    /\ UNCHANGED <<backend, isOpen, rows, failed, now, ticks, seen, seenAt, ret>>
    /\ UNCHANGED svcVars

ConcNext ==
    \/ \E d \in TickSteps : Tick(d)
    \/ \E p \in Callers, id \in JobIds, given \in ConcCarried :
          BeginSeen(p, id, given)
    \/ \E p \in Callers : CommitSeen(p)
    \/ \E p \in Callers : PutLatest(p)
    \/ \E p \in Callers : PutHistory(p)

SpecConc == ConcInit /\ [][ConcNext]_vars

\* the data of the history rows of an id, in the back end in use
HistoryData(id) ==
    IF backend \in Relational
    THEN {r.data : r \in HistoryRows(rows, id)}
    ELSE {e.val : e \in {x \in kv : x.kind = "history" /\ x.gid = id}}

\* the data of the latest rows of an id
LatestData(id) == {l.data : l \in {x \in AbsLatest : x.id = id}}

\* the callers that have entered do_seen for the id
CallersOf(id) == {q \in Callers : calls[q].stage # "idle" /\ calls[q].id = id}

----------------------------------------------------------------------------
(* The same calls made on every back end: rows is the table of the          *)
(* relational trackers, whose do_seen and cleanup_old_history are the same  *)
(* code, and kv is the RocksDB key space.                                   *)

EquivInit ==
    /\ backend = "postgres"
    /\ isOpen = TRUE
    /\ rows = {}
    /\ kv = {}
    /\ failed = <<>>
    /\ now = 0
    /\ ticks = 0
    /\ seen = 0
    /\ seenAt = [id \in JobIds |-> Never]
    /\ ret = NoCall
    /\ calls = NoCalls
    /\ max_jobs = 1
    /\ ServiceIdle
    /\ ApiIdle
    /\ RunnerIdle
    /\ DriverIdle
    /\ Initialized

\* do_seen(job_data) on each tracker
EachDoSeen(id, given) ==
    /\ seen < MaxSeen
    /\ rows' = RelDoSeen(rows, id, given, now)
    /\ kv' = RocksDoSeen(kv, id, given, now, "none")
    /\ seen' = seen + 1
    /\ UNCHANGED <<backend, isOpen, failed, now, ticks, seenAt, ret>>
    /\ UNCHANGED <<svcVars, calls>>

\* cleanup_old_history(days_to_keep) on each tracker
EachCleanup(days) ==
    /\ rows' = rows \ RelCleanupDeleted(rows, days, now)
    /\ kv' = kv \ RocksCleanupDeleted(kv, days, now)
    /\ UNCHANGED <<backend, isOpen, failed, now, ticks, seen, seenAt, ret>>
    /\ UNCHANGED <<svcVars, calls>>

\* limit of get_job_history
Limits == {0, 1, 2}

\* an entry of a returned history: the stored job data, with the id and the
\* recording instant of the row it came from
HistoryEntry(id, at, data) == [id |-> id, at |-> at, data |-> data]

Take(seq, n) == SubSeq(seq, 1, IF n < Len(seq) THEN n ELSE Len(seq))

\* .order_by(desc(JobEntry.last_visited_at))
RECURSIVE OrderByDesc(_)
OrderByDesc(S) ==
    IF S = {} THEN <<>>
    ELSE LET m == CHOOSE x \in S : \A y \in S : y.last_visited_at <= x.last_visited_at
         IN  <<m>> \o OrderByDesc(S \ {m})

\* PostgreSQLJobTracker.get_job_history(job_id, limit)
PgGetJobHistory(rs, id, limit) ==
    LET entries == Take(OrderByDesc(HistoryRows(rs, id)), limit)
    IN  [i \in 1..Len(entries) |->
            HistoryEntry(entries[i].job_id, entries[i].last_visited_at, entries[i].data)]

\* byte order of two keys that start with the same history prefix: a
\* timestamp (digits) sorts before a longer id, ":history:" before ":latest",
\* and timestamps in the order of their instants
KeyBefore(a, b, prefix) ==
    LET plain(e) == Len(e.key) = Len(prefix) + 1
    IN  IF plain(a) # plain(b) THEN plain(a)
        ELSE IF a.kind # b.kind THEN a.kind = "history"
        ELSE a.at < b.at

\* it.seek(prefix) and the iteration while key.startswith(prefix)
RECURSIVE InKeyOrder(_, _)
InKeyOrder(S, prefix) ==
    IF S = {} THEN <<>>
    ELSE LET m == CHOOSE x \in S : \A y \in S \ {x} : KeyBefore(x, y, prefix)
         IN  <<m>> \o InKeyOrder(S \ {m}, prefix)

\* the loop appends an entry and then tests len(history) >= limit
UpToLimit(seq, limit) == Take(seq, IF limit < 1 THEN 1 ELSE limit)

\* comparing None with a str or with None raises TypeError
SortRaises(seq) ==
    /\ Len(seq) >= 2
    /\ \E i \in 1..Len(seq) : seq[i].val.last_visited_at.kind = "none"

\* history.sort(key=last_visited_at, reverse=True): stable
RECURSIVE SortReverse(_)
SortReverse(seq) ==
    IF seq = <<>> THEN <<>>
    ELSE LET w(i) == FromIso(seq[i].val.last_visited_at)
             m == CHOOSE i \in 1..Len(seq) :
                      /\ \A j \in 1..Len(seq) : w(j) <= w(i)
                      /\ \A j \in 1..(i - 1) : w(j) < w(i)
         IN  <<seq[m]>> \o SortReverse(SubSeq(seq, 1, m - 1) \o SubSeq(seq, m + 1, Len(seq)))

\* RocksDBJobTracker.get_job_history(job_id, limit)
RocksGetJobHistory(db, id, limit) ==
    LET prefix == HistoryPrefix(id)
        scanned == InKeyOrder({e \in db : StartsWith(e.key, prefix)}, prefix)
        history == UpToLimit(scanned, limit)
        sorted == IF SortRaises(history) THEN <<>>
                  ELSE IF Len(history) < 2 THEN history
                  ELSE SortReverse(history)
    IN  [i \in 1..Len(sorted) |-> HistoryEntry(sorted[i].gid, sorted[i].at, sorted[i].val)]

\* get_job_history(job_id, limit) on each tracker
EachGetJobHistory(id, limit) ==
    /\ ret' = [op |-> "get_job_history", id |-> id, arg |-> limit,
               postgres |-> PgGetJobHistory(rows, id, limit),
               rocksdb |-> RocksGetJobHistory(kv, id, limit)]
    /\ UNCHANGED <<backend, isOpen, rows, kv, failed, now, ticks, seen, seenAt>>
    /\ UNCHANGED <<svcVars, calls>>

\* the two counts of RocksDBJobTracker.get_stats: a key that contains
\* ":latest" is a job, any other key that contains ":history:" is a history
\* entry
RocksGetStats(db) ==
    [total_jobs |-> Cardinality({e \in db : HasToken(e.key, ":latest")}),
     total_history_entries |->
         Cardinality({e \in db : /\ ~HasToken(e.key, ":latest")
                                  /\ HasToken(e.key, ":history:")})]

\* get_stats() on the RocksDB tracker
GetStats ==
    /\ ret' = [op |-> "get_stats", id |-> EmptyId, arg |-> 0,
               postgres |-> <<>>, rocksdb |-> <<>>, stats |-> RocksGetStats(kv)]
    /\ UNCHANGED <<backend, isOpen, rows, kv, failed, now, ticks, seen, seenAt>>
    /\ UNCHANGED <<svcVars, calls>>

EquivNext ==
    \/ \E d \in TickSteps : Tick(d)
    \/ GetStats
    \/ \E id \in JobIds, limit \in Limits : EachGetJobHistory(id, limit)
    \/ \E id \in JobIds, given \in Carried : EachDoSeen(id, given)
    \/ \E days \in DaysToKeep : EachCleanup(days)

SpecEquiv == EquivInit /\ [][EquivNext]_vars

\* C15: after the same calls at the same clock readings, the three trackers
\* give the same should_process answer for every id and hold the same
\* number of latest and of history rows for it.
C15_BackendsAgree ==
    \A id \in JobIds :
        /\ PgShouldProcess(rows, id, now) = SqliteShouldProcess(rows, id, now)
        /\ PgShouldProcess(rows, id, now)
              = RocksShouldProcess(kv, TRUE, id, now, "none")
        /\ Cardinality(LatestRows(rows, id))
              = Cardinality({e \in kv : e.kind = "latest" /\ e.gid = id})
        /\ Cardinality(HistoryRows(rows, id))
              = Cardinality({e \in kv : e.kind = "history" /\ e.gid = id})

\* the instant should_process compares the clock against, Never when there is
\* no latest entry or it carries no instant
PgCompared(rs, id) ==
    IF LatestRows(rs, id) = {} THEN Never
    ELSE (CHOOSE x \in LatestRows(rs, id) : TRUE).last_visited_at

SqliteCompared(rs, id) ==
    LET found == {r \in rs : r.job_id = id /\ r.entry_type = "latest"}
    IN  IF found = {} THEN Never
        ELSE LET s == (CHOOSE x \in found : TRUE).data.last_visited_at
             IN  IF s.kind = "none" THEN Never ELSE FromIso(s)

RocksCompared(db, id) ==
    LET found == KvGet(db, LatestKey(id))
    IN  IF found = {} THEN Never
        ELSE LET s == (CHOOSE e \in found : TRUE).val.last_visited_at
             IN  IF s.kind = "none" THEN Never ELSE FromIso(s)

NeverDecreases(before, after) == (before # Never /\ after # Never) => after >= before

\* C16: for every id and on every tracker, a do_seen call never moves the
\* instant that should_process compares against backwards.
C16_LastVisitedNeverDecreases ==
    [][\A id \in JobIds :
          /\ NeverDecreases(PgCompared(rows, id), PgCompared(rows', id))
          /\ NeverDecreases(SqliteCompared(rows, id), SqliteCompared(rows', id))
          /\ NeverDecreases(RocksCompared(kv, id), RocksCompared(kv', id))]_vars

\* a returned history of at most limit entries, all of them rows of the
\* asked id, the most recently recorded first
NewestFirst(h, id, limit) ==
    /\ Len(h) <= limit
    /\ \A i \in 1..Len(h) : h[i].id = id
    /\ \A i, j \in 1..Len(h) : i < j => h[i].at >= h[j].at

\* C18: get_job_history(id, limit) returns at most limit entries, every one
\* a history row of that id, ordered most recent first.
C18_HistoryNewestFirst ==
    ret.op = "get_job_history"
    => /\ NewestFirst(ret.postgres, ret.id, ret.arg)
       /\ NewestFirst(ret.rocksdb, ret.id, ret.arg)

\* C39: on the RocksDB tracker, whatever the id strings, get_job_history(A)
\* returns only history entries recorded for A, cleanup_old_history deletes
\* no latest entry, and get_stats counts every latest entry once as a job
\* and every history entry once as a history entry.
C39_KeyedByOneId ==
    [][/\ (ret' # ret /\ ret'.op = "get_job_history")
          => \A i \in 1..Len(ret'.rocksdb) :
                /\ ret'.rocksdb[i].id = ret'.id
                /\ \E e \in kv : /\ e.kind = "history"
                                 /\ e.gid = ret'.id
                                 /\ e.at = ret'.rocksdb[i].at
                                 /\ e.val = ret'.rocksdb[i].data
       /\ (kv' # kv /\ seen' = seen) => \A e \in kv \ kv' : e.kind = "history"
       /\ (ret' # ret /\ ret'.op = "get_stats")
          => /\ ret'.stats.total_jobs
                  = Cardinality({e \in kv : e.kind = "latest"})
             /\ ret'.stats.total_history_entries
                  = Cardinality({e \in kv : e.kind = "history"})]_vars

\* a returned history that holds limit entries whose recording instants are
\* the latest of the instants in ats
MostRecent(h, ats, limit) ==
    /\ Len(h) = limit
    /\ \A i \in 1..Len(h) : h[i].at \in ats
    /\ \A t \in ats : (\A i \in 1..Len(h) : h[i].at # t)
                         => \A i \in 1..Len(h) : t <= h[i].at

\* C36: when an id has more than limit history rows, get_job_history(id,
\* limit) with a limit of at least one returns the limit most recent of
\* them, on every tracker alike.
C36_MostRecentReturned ==
    [][\A id \in JobIds, limit \in Limits :
          (/\ EachGetJobHistory(id, limit)
           /\ limit >= 1
           /\ Cardinality(HistoryRows(rows, id)) > limit
           /\ Cardinality({e \in kv : e.kind = "history" /\ e.gid = id}) > limit)
          => /\ MostRecent(ret'.postgres,
                           {r.last_visited_at : r \in HistoryRows(rows, id)}, limit)
             /\ MostRecent(ret'.rocksdb,
                           {e.at : e \in {x \in kv : x.kind = "history" /\ x.gid = id}},
                           limit)
             /\ ret'.postgres = ret'.rocksdb]_vars

----------------------------------------------------------------------------
(* Life of one tracker: job entries, failed extractions (relational        *)
(* trackers only) and close()                                               *)

FailedInit == StoreInit

FailedNext ==
    \/ \E d \in TickSteps : Tick(d)
    \/ \E id \in JobIds, given \in Carried, via \in Vias : DoSeen(id, given, "none", via)
    \/ \E id \in JobIds, fail \in FailModes : RecordFailedJob(id, fail)
    \/ Close

SpecFailed == FailedInit /\ [][FailedNext]_vars

\* what should_process(id) answers on the instantiated relational tracker
RelShouldProcess(b, open, rs, id, t) ==
    IF ~open THEN TRUE
    ELSE IF b = "sqlite" THEN SqliteShouldProcess(rs, id, t)
    ELSE PgShouldProcess(rs, id, t)

KeepsEarlier(before, after) ==
    /\ Len(after) >= Len(before)
    /\ SubSeq(after, 1, Len(before)) = before

\* C17: record_failed_job leaves every latest and history row as it was, so
\* should_process answers as before for every id; a call whose session
\* commits adds exactly one failed entry and keeps every earlier one, and a
\* call whose session fails adds none.
C17_FailureNeverBlocksRetry ==
    [][\A id \in JobIds, fail \in FailModes :
          RecordFailedJob(id, fail)
          => /\ rows' = rows
             /\ kv' = kv
             /\ \A j \in JobIds :
                   RelShouldProcess(backend', isOpen', rows', j, now')
                      = RelShouldProcess(backend, isOpen, rows, j, now)
             /\ KeepsEarlier(failed, failed')
             /\ Len(failed') = Len(failed) + (IF isOpen /\ fail = "none" THEN 1 ELSE 0)]_vars

C17_SecondFailureRecorded ==
    /\ ret.op = "record_failed_job"
    /\ Len(failed) = 2
    /\ \E id \in JobIds : LatestRows(rows, id) # {} /\ failed[1].job_id = id

\* C17 as stated: every call adds one new entry
C17_EachCallAddsEntry ==
    [][\A id \in JobIds, fail \in FailModes :
          RecordFailedJob(id, fail) => Len(failed') = Len(failed) + 1]_vars

\* C19: close() can be called again: a call on a tracker that was closed
\* before raises nothing, leaves the handles dropped and touches no row.
C19_CloseAgainIsSafe ==
    [][Close => /\ ~ret'.raised
                /\ ~isOpen => ~isOpen'
                /\ ret.op = "close" => isOpen' = isOpen
                /\ rows' = rows /\ kv' = kv /\ failed' = failed]_vars

C19_ClosedTwice ==
    /\ ret.op = "close"
    /\ ret.n = 2
    /\ ~isOpen
    /\ rows # {} \/ kv # {}

----------------------------------------------------------------------------
(* The driver's tabs while _process_single_job_url works on detail pages:   *)
(* the browser can lose a tab at any time, and a call of the driver can     *)
(* raise                                                                    *)

Range(seq) == {seq[i] : i \in DOMAIN seq}
Remove(seq, x) == SelectSeq(seq, LAMBDA y : y # x)

\* the tabs the browser shows when a detail page is about to be opened
StartTabs == {<<"listing">>, <<"listing", "other">>, <<"other", "listing">>}

\* what driver.switch_to_tab does
SwitchOutcomes == {"ok", "raises"}

DetailTab(n) == "detail" \o ToString(n)

\* driver.switch_to_tab(t) works: the tab exists and the call does not raise
Switched(open, t, outcome) == outcome = "ok" /\ t \in Range(open)

\* a switch back without the handler around it
SwitchWithoutFallback(base, open, cur, first, second) ==
    IF base = NoFocus THEN [focus |-> cur, raised |-> FALSE]
    ELSE IF Switched(open, base, first) THEN [focus |-> base, raised |-> FALSE]
    ELSE [focus |-> cur, raised |-> TRUE]

\* _safe_switch_to_base_tab(base_tab)
SafeSwitchToBaseTab(base, open, cur, first, second) ==
    IF base = NoFocus THEN [focus |-> cur, raised |-> FALSE]
    ELSE IF Switched(open, base, first) THEN [focus |-> base, raised |-> FALSE]
    ELSE IF open # <<>> /\ Switched(open, open[1], second)
         THEN [focus |-> open[1], raised |-> FALSE]
    ELSE [focus |-> cur, raised |-> FALSE]

FocusInit ==
    /\ backend = "postgres"
    /\ isOpen = TRUE
    /\ rows = {}
    /\ kv = {}
    /\ failed = <<>>
    /\ now = 0
    /\ ticks = 0
    /\ seen = 0
    /\ seenAt = [id \in JobIds |-> Never]
    /\ ret = NoCall
    /\ calls = NoCalls
    /\ max_jobs = 1
    /\ ServiceIdle
    /\ ApiIdle
    /\ RunnerIdle
    /\ Initialized
    /\ tabs \in StartTabs
    /\ focus \in {"listing", NoFocus}
    /\ base_tab = NoFocus
    /\ switchRaised = FALSE

\* _process_single_job_url up to open_link_in_new_tab
OpenDetailTab(open) ==
    /\ pc = "idle"
    /\ cursor < MaxDetailPages
    /\ base_tab' = focus
    /\ IF open = "tab"
       THEN /\ tab' = NewTab(DetailTab(cursor))
            /\ tabs' = Append(tabs, DetailTab(cursor))
            /\ pc' = "extract"
       ELSE /\ tab' = NoTab
            /\ tabs' = tabs
            /\ pc' = "finally"
    /\ UNCHANGED <<focus, switchRaised, cursor>>
    /\ UNCHANGED <<max_jobs, cancelRequested, delivered, index, job_list,
                   new_job_urls, comprehensive_jobs_found, individual_jobs,
                   job_list_db, pushed, opens, openTabs, cleanupErrors, thrown,
                   now>>
    /\ UNCHANGED <<storeRest, runner, calls, summary, cleanupVars, bypass, waited,
                   total_jobs_processed, mainLoop, api>>

\* _extract_and_push_comprehensive_job_from_tab: driver.switch_to_tab(tab),
\* an exception of which is logged there
SwitchToDetailTab(outcome) ==
    /\ pc = "extract"
    /\ focus' = IF Switched(tabs, tab.uid, outcome) THEN tab.uid ELSE focus
    /\ pc' = "finally"
    /\ UNCHANGED <<tabs, base_tab, switchRaised, cursor, tab>>
    /\ UNCHANGED <<max_jobs, cancelRequested, delivered, index, job_list,
                   new_job_urls, comprehensive_jobs_found, individual_jobs,
                   job_list_db, pushed, opens, openTabs, cleanupErrors, thrown,
                   now>>
    /\ UNCHANGED <<storeRest, runner, calls, summary, cleanupVars, bypass, waited,
                   total_jobs_processed, mainLoop, api>>

\* the browser loses a tab that the service did not open
TabGone(t) ==
    /\ t \in Range(tabs) \cap {"listing", "other"}
    /\ tabs' = Remove(tabs, t)
    /\ UNCHANGED <<pc, focus, base_tab, switchRaised, cursor, tab>>
    /\ UNCHANGED <<max_jobs, cancelRequested, delivered, index, job_list,
                   new_job_urls, comprehensive_jobs_found, individual_jobs,
                   job_list_db, pushed, opens, openTabs, cleanupErrors, thrown,
                   now>>
    /\ UNCHANGED <<storeRest, runner, calls, summary, cleanupVars, bypass, waited,
                   total_jobs_processed, mainLoop, api>>

\* the finally block of _process_single_job_url: _safe_close_tab(tab), then
\* _safe_switch_to_base_tab(base_tab)
ReleaseAndSwitchBack(how, first, second) ==
    /\ pc = "finally"
    /\ LET closing == IF tab = NoTab THEN tab ELSE SafeCloseTab(tab, how)
           open == IF tab # NoTab /\ ~closing.open THEN Remove(tabs, tab.uid) ELSE tabs
           res == SafeSwitchToBaseTab(base_tab, open, focus, first, second)
       IN  /\ tab' = closing
           /\ tabs' = open
           /\ focus' = res.focus
           /\ switchRaised' = (switchRaised \/ res.raised)
    /\ cursor' = cursor + 1
    /\ pc' = "idle"
    /\ UNCHANGED base_tab
    /\ UNCHANGED <<max_jobs, cancelRequested, delivered, index, job_list,
                   new_job_urls, comprehensive_jobs_found, individual_jobs,
                   job_list_db, pushed, opens, openTabs, cleanupErrors, thrown,
                   now>>
    /\ UNCHANGED <<storeRest, runner, calls, summary, cleanupVars, bypass, waited,
                   total_jobs_processed, mainLoop, api>>

FocusNext ==
    \/ \E open \in OpenOutcomes : OpenDetailTab(open)
    \/ \E outcome \in SwitchOutcomes : SwitchToDetailTab(outcome)
    \/ \E t \in {"listing", "other"} : TabGone(t)
    \/ \E how \in CloseOutcomes, first \in SwitchOutcomes, second \in SwitchOutcomes :
          ReleaseAndSwitchBack(how, first, second)

SpecFocus == FocusInit /\ [][FocusNext]_vars

----------------------------------------------------------------------------
(* cleanup(): close_all_tabs and close run in worker threads of the default *)
(* executor under asyncio.wait_for; a worker that has timed out, or whose   *)
(* waiter was cancelled, goes on running                                    *)

\* how an awaited call ends for the coroutine that awaits it
WaitOutcomes == {"returned", "Exception", "TimeoutError", "CancelledError"}

\* how a direct call of the driver ends
CallOutcomes == {"returned", "Exception"}

\* the browser when cleanup() is called
CleanupTabs == StartTabs \cup {<<>>}

\* handlers that let every exception of a close through
Reraises(outcome) == IF outcome = "returned" THEN "none" ELSE outcome

\* what is left of an awaited call's outcome after cleanup's handlers:
\* `except asyncio.TimeoutError` and `except Exception` log, CancelledError
\* passes
AfterCleanupHandlers(outcome) ==
    IF outcome = "returned" THEN "none"
    ELSE IF outcome = "TimeoutError" \/ IsException(outcome) THEN "none"
    ELSE outcome

\* the worker of a call is still running after the wait for it has ended
StillRunning(outcome) == outcome \in {"TimeoutError", "CancelledError"}

CleanupInit ==
    /\ backend = "postgres"
    /\ isOpen = TRUE
    /\ rows = {}
    /\ kv = {}
    /\ failed = <<>>
    /\ now = 0
    /\ ticks = 0
    /\ seen = 0
    /\ seenAt = [id \in JobIds |-> Never]
    /\ ret = NoCall
    /\ calls = NoCalls
    /\ max_jobs = 1
    /\ ServiceIdle
    /\ ApiIdle
    /\ RunnerIdle
    /\ tabs \in CleanupTabs
    /\ focus = "listing"
    /\ base_tab = NoFocus
    /\ switchRaised = FALSE
    /\ driver \in BOOLEAN
    /\ initialized \in BOOLEAN
    /\ executing = {}
    /\ escaped = "none"
    /\ bypass = NoBypass

\* where initialize() can fail: nowhere, in Driver(...) before self.driver
\* is set, or after it (config.build_search_urls() raises)
InitFailures == {"none", "before_driver", "after_driver"}

\* initialize() on the constructed service; on an Exception it awaits
\* cleanup(), which returns at once because _initialized is not set, and
\* re-raises
Initialize(failure) ==
    /\ pc = "idle"
    /\ ~initialized /\ ~driver
    /\ driver' = (failure # "before_driver")
    /\ initialized' = (failure = "none")
    /\ pc' = IF failure = "none" THEN "idle" ELSE "init_failed"
    /\ UNCHANGED <<executing, escaped, tabs, cursor, tab>>
    /\ UNCHANGED <<focus, base_tab, switchRaised>>
    /\ UNCHANGED <<max_jobs, cancelRequested, delivered, index, job_list,
                   new_job_urls, comprehensive_jobs_found, individual_jobs,
                   job_list_db, pushed, opens, openTabs, cleanupErrors, thrown,
                   now>>
    /\ UNCHANGED <<storeRest, runner, calls, summary, bypass, waited,
                   total_jobs_processed, mainLoop, api>>

\* cleanup() up to the first await
StartCleanup ==
    /\ pc = "idle"
    /\ IF ~initialized THEN pc' = "done" /\ UNCHANGED executing
       ELSE IF ~driver THEN pc' = "finish" /\ UNCHANGED executing
       ELSE pc' = "wait_tabs" /\ executing' = executing \cup {"close_all_tabs"}
    /\ UNCHANGED <<driver, initialized, escaped, tabs, cursor, tab>>
    /\ UNCHANGED <<focus, base_tab, switchRaised>>
    /\ UNCHANGED <<max_jobs, cancelRequested, delivered, index, job_list,
                   new_job_urls, comprehensive_jobs_found, individual_jobs,
                   job_list_db, pushed, opens, openTabs, cleanupErrors, thrown,
                   now>>
    /\ UNCHANGED <<storeRest, runner, calls, summary, bypass, waited,
                   total_jobs_processed, mainLoop, api>>

\* the wait for close_all_tabs ends; the wait for driver.close begins, or
\* the tabs are closed one by one when close_all_tabs raised
AfterCloseAllTabs(outcome) ==
    /\ pc = "wait_tabs"
    /\ LET left == IF StillRunning(outcome) THEN executing
                   ELSE executing \ {"close_all_tabs"}
       IN  CASE AfterCleanupHandlers(outcome) # "none" ->
                  /\ executing' = left
                  /\ driver' = FALSE
                  /\ escaped' = AfterCleanupHandlers(outcome)
                  /\ pc' = "done"
                  /\ UNCHANGED <<tabs, cursor>>
             [] outcome = "Exception" ->
                  /\ executing' = left
                  /\ cursor' = 1
                  /\ pc' = "close_tabs"
                  /\ UNCHANGED <<driver, escaped, tabs>>
             [] OTHER ->
                  /\ executing' = left \cup {"close"}
                  /\ tabs' = IF outcome = "returned" THEN <<>> ELSE tabs
                  /\ pc' = "wait_close"
                  /\ UNCHANGED <<driver, escaped, cursor>>
    /\ UNCHANGED <<initialized, tab>>
    /\ UNCHANGED <<focus, base_tab, switchRaised>>
    /\ UNCHANGED <<max_jobs, cancelRequested, delivered, index, job_list,
                   new_job_urls, comprehensive_jobs_found, individual_jobs,
                   job_list_db, pushed, opens, openTabs, cleanupErrors, thrown,
                   now>>
    /\ UNCHANGED <<storeRest, runner, calls, summary, bypass, waited,
                   total_jobs_processed, mainLoop, api>>

\* one turn of the loop over driver.tabs: _safe_close_tab(tab); after the
\* last tab the wait for driver.close begins
CloseTabInCleanup(how) ==
    /\ pc = "close_tabs"
    /\ IF cursor > Len(tabs)
       THEN /\ executing' = executing \cup {"close"}
            /\ pc' = "wait_close"
            /\ UNCHANGED <<cursor, tab>>
       ELSE /\ tab' = SafeCloseTab(NewTab(tabs[cursor]), how)
            /\ cursor' = cursor + 1
            /\ UNCHANGED <<executing, pc>>
    /\ UNCHANGED <<driver, initialized, escaped, tabs>>
    /\ UNCHANGED <<focus, base_tab, switchRaised>>
    /\ UNCHANGED <<max_jobs, cancelRequested, delivered, index, job_list,
                   new_job_urls, comprehensive_jobs_found, individual_jobs,
                   job_list_db, pushed, opens, openTabs, cleanupErrors, thrown,
                   now>>
    /\ UNCHANGED <<storeRest, runner, calls, summary, bypass, waited,
                   total_jobs_processed, mainLoop, api>>

\* the wait for driver.close ends; driver.quit() is called when it timed out
\* or raised
AfterDriverClose(outcome) ==
    /\ pc = "wait_close"
    /\ LET left == IF StillRunning(outcome) THEN executing
                   ELSE executing \ {"close"}
       IN  CASE AfterCleanupHandlers(outcome) # "none" ->
                  /\ executing' = left
                  /\ driver' = FALSE
                  /\ escaped' = AfterCleanupHandlers(outcome)
                  /\ pc' = "done"
             [] outcome = "returned" ->
                  /\ executing' = left
                  /\ pc' = "finish"
                  /\ UNCHANGED <<driver, escaped>>
             [] OTHER ->
                  /\ executing' = left \cup {"quit"}
                  /\ pc' = "quit"
                  /\ UNCHANGED <<driver, escaped>>
    /\ UNCHANGED <<initialized, tabs, cursor, tab>>
    /\ UNCHANGED <<focus, base_tab, switchRaised>>
    /\ UNCHANGED <<max_jobs, cancelRequested, delivered, index, job_list,
                   new_job_urls, comprehensive_jobs_found, individual_jobs,
                   job_list_db, pushed, opens, openTabs, cleanupErrors, thrown,
                   now>>
    /\ UNCHANGED <<storeRest, runner, calls, summary, bypass, waited,
                   total_jobs_processed, mainLoop, api>>

\* self.driver.quit() returns or raises; its exception is logged
DriverQuit(outcome) ==
    /\ pc = "quit"
    /\ executing' = executing \ {"quit"}
    /\ escaped' = AfterCleanupHandlers(outcome)
    /\ pc' = IF escaped' = "none" THEN "finish" ELSE "done"
    /\ driver' = IF escaped' = "none" THEN driver ELSE FALSE
    /\ UNCHANGED <<initialized, tabs, cursor, tab>>
    /\ UNCHANGED <<focus, base_tab, switchRaised>>
    /\ UNCHANGED <<max_jobs, cancelRequested, delivered, index, job_list,
                   new_job_urls, comprehensive_jobs_found, individual_jobs,
                   job_list_db, pushed, opens, openTabs, cleanupErrors, thrown,
                   now>>
    /\ UNCHANGED <<storeRest, runner, calls, summary, bypass, waited,
                   total_jobs_processed, mainLoop, api>>

\* a worker thread whose waiter has gone ends its call
WorkerReturns(op) ==
    /\ op \in executing
    /\ \/ op = "close_all_tabs" /\ pc # "wait_tabs"
       \/ op = "close" /\ pc # "wait_close"
    /\ executing' = executing \ {op}
    /\ UNCHANGED <<pc, driver, initialized, escaped, tabs, cursor, tab>>
    /\ UNCHANGED <<focus, base_tab, switchRaised>>
    /\ UNCHANGED <<max_jobs, cancelRequested, delivered, index, job_list,
                   new_job_urls, comprehensive_jobs_found, individual_jobs,
                   job_list_db, pushed, opens, openTabs, cleanupErrors, thrown,
                   now>>
    /\ UNCHANGED <<storeRest, runner, calls, summary, bypass, waited,
                   total_jobs_processed, mainLoop, api>>

\* the finally block that clears self.driver, _cleanup_hanging_processes
\* (pgrep awaited in a worker) and the end of cleanup()
FinishCleanup(outcome) ==
    /\ pc = "finish"
    /\ driver' = FALSE
    /\ escaped' = AfterCleanupHandlers(outcome)
    /\ initialized' = IF escaped' = "none" THEN FALSE ELSE initialized
    /\ pc' = "done"
    /\ UNCHANGED <<executing, tabs, cursor, tab>>
    /\ UNCHANGED <<focus, base_tab, switchRaised>>
    /\ UNCHANGED <<max_jobs, cancelRequested, delivered, index, job_list,
                   new_job_urls, comprehensive_jobs_found, individual_jobs,
                   job_list_db, pushed, opens, openTabs, cleanupErrors, thrown,
                   now>>
    /\ UNCHANGED <<storeRest, runner, calls, summary, bypass, waited,
                   total_jobs_processed, mainLoop, api>>

CleanupNext ==
    \/ \E failure \in InitFailures : Initialize(failure)
    \/ StartCleanup
    \/ \E outcome \in WaitOutcomes : AfterCloseAllTabs(outcome)
    \/ \E how \in CloseOutcomes : CloseTabInCleanup(how)
    \/ \E outcome \in WaitOutcomes : AfterDriverClose(outcome)
    \/ \E outcome \in CallOutcomes : DriverQuit(outcome)
    \/ \E op \in {"close_all_tabs", "close"} : WorkerReturns(op)
    \/ \E outcome \in WaitOutcomes : FinishCleanup(outcome)

SpecCleanup == CleanupInit /\ [][CleanupNext]_vars

\* C22: at every moment at most one call on the driver is executing.
C22_OneDriverCallAtATime == Cardinality(executing) <= 1

\* C30: no failure of close_all_tabs, of a tab's close or of driver.close
\* leaves cleanup() as an exception (only CancelledError does); when
\* driver.close fails or times out driver.quit() is called; and when
\* cleanup() of an initialized service returns, the driver reference is
\* cleared and the service is marked uninitialized.
C30_CloseFailureNotRaised ==
    [][/\ escaped' \in {"none", "CancelledError"}
       /\ \A outcome \in {"Exception", "TimeoutError"} :
             AfterDriverClose(outcome) => "quit" \in executing'
       /\ \A how \in CloseOutcomes :
             CloseTabInCleanup(how) => (escaped' = "none" /\ pc' # "done")
       /\ (pc # "done" /\ pc' = "done" /\ initialized /\ escaped' = "none")
             => (~driver' /\ ~initialized')]_vars

\* C32: after initialize() has raised, the service holds no driver.
C32_NoDriverAfterFailedInit == pc = "init_failed" => ~driver

C30_CleanedUpAfterFailedClose ==
    /\ pc = "done"
    /\ escaped = "none"
    /\ ~driver
    /\ ~initialized
    /\ tab # NoTab /\ tab.cleanupError

----------------------------------------------------------------------------
(* handle_cloudflare_detection, one call of detect_and_bypass_cloudflare at *)
(* a time                                                                   *)

\* retry_attempts and next_delay of the outermost call, and the number of
\* calls of detect_and_bypass_cloudflare that raise
RetryBounds == 0..RetryAttempts
FirstDelays == {1, 2}
FailingCalls == 0..(RetryAttempts + 2)

\* a handler that gives up after the first failed call
GivesUpAtOnce(b) ==
    [b EXCEPT !.attempts = b.attempts + 1,
              !.delays = Append(b.delays, b.next_delay),
              !.ended = IF b.failures = 0 THEN "returned" ELSE "raised"]

\* one activation of handle_cloudflare_detection: time.sleep(next_delay),
\* detect_and_bypass_cloudflare(), and on its exception either the
\* recursive call with retry_attempts - 1 and next_delay * 2 or `raise exc`
BypassAttempt(b) ==
    LET slept == [b EXCEPT !.attempts = b.attempts + 1,
                           !.delays = Append(b.delays, b.next_delay)]
    IN  IF b.failures = 0 THEN [slept EXCEPT !.ended = "returned"]
        ELSE IF b.retry_attempts > 0
        THEN [slept EXCEPT !.failures = b.failures - 1,
                           !.retry_attempts = b.retry_attempts - 1,
                           !.next_delay = b.next_delay * 2]
        ELSE [slept EXCEPT !.failures = b.failures - 1, !.ended = "raised"]

BypassInit ==
    /\ backend = "postgres"
    /\ isOpen = TRUE
    /\ rows = {}
    /\ kv = {}
    /\ failed = <<>>
    /\ now = 0
    /\ ticks = 0
    /\ seen = 0
    /\ seenAt = [id \in JobIds |-> Never]
    /\ ret = NoCall
    /\ calls = NoCalls
    /\ max_jobs = 1
    /\ ServiceIdle
    /\ ApiIdle
    /\ RunnerIdle
    /\ DriverIdle
    /\ driver = TRUE
    /\ initialized = TRUE
    /\ executing = {}
    /\ escaped = "none"
    /\ \E n \in RetryBounds, d \in FirstDelays, f \in FailingCalls :
          bypass = BypassCall(n, d, f)

\* the next activation of handle_cloudflare_detection runs
HandleCloudflareStep ==
    /\ bypass.ended = "running"
    /\ bypass' = BypassAttempt(bypass)
    /\ now' = now + bypass.next_delay
    /\ UNCHANGED <<pc, max_jobs, cancelRequested, delivered, index, job_list,
                   cursor, new_job_urls, comprehensive_jobs_found,
                   individual_jobs, job_list_db, pushed, tab, opens, openTabs,
                   cleanupErrors, thrown>>
    /\ UNCHANGED <<storeRest, runner, calls, driverVars, summary, cleanupVars, waited,
                   total_jobs_processed, mainLoop, api>>

BypassNext == HandleCloudflareStep

SpecBypass == BypassInit /\ [][BypassNext]_vars

\* C25: handle_cloudflare_detection with bound N calls the bypass at most
\* N + 1 times, sleeps twice as long before each call as before the one
\* before, returns right after the first call that works, and raises after
\* N + 1 failed calls.
C25_BypassBounded ==
    /\ bypass.attempts <= bypass.bound + 1
    /\ \A i \in 1..(Len(bypass.delays) - 1) : bypass.delays[i + 1] = 2 * bypass.delays[i]
    /\ bypass.ended = "returned"
          => (bypass.failures = 0 /\ bypass.attempts <= bypass.bound + 1)
    /\ bypass.ended = "raised" => bypass.attempts = bypass.bound + 1
    /\ bypass.ended = "running" => bypass.attempts + bypass.retry_attempts = bypass.bound

C25_RaisedAfterAllAttempts ==
    /\ bypass.ended = "raised"
    /\ bypass.bound = RetryAttempts
    /\ bypass.delays = <<1, 2, 4, 8>>

\* C25 as stated: no more than N attempts
C25_AtMostBoundAttempts == bypass.attempts <= bypass.bound

----------------------------------------------------------------------------
(* run_main_with_shutdown and signal_handler: the handler is installed with *)
(* signal.signal, so it runs in the main thread between any two steps of    *)
(* the runner                                                               *)

\* how the iteration task can end
TaskOutcomes == {"none", "CloudflareDetectionException", "Exception", "CancelledError"}

\* delay_seconds of the sleep between two iterations, in wake-ups of
\* _sleep_with_shutdown_check
SleepWakeUps == {1, 2, 3}

\* what the steps of the runner leave alone
RunnerFrame ==
    /\ UNCHANGED <<pc, max_jobs, cancelRequested, delivered, index, job_list,
                   cursor, new_job_urls, comprehensive_jobs_found,
                   individual_jobs, job_list_db, pushed, tab, opens, openTabs,
                   cleanupErrors, thrown, now>>
    /\ UNCHANGED <<storeRest, runner, calls, driverVars, summary, cleanupVars,
                   bypass, waited, total_jobs_processed, api>>

RunnerInit ==
    /\ backend = "postgres"
    /\ isOpen = TRUE
    /\ rows = {}
    /\ kv = {}
    /\ failed = <<>>
    /\ now = 0
    /\ ticks = 0
    /\ seen = 0
    /\ seenAt = [id \in JobIds |-> Never]
    /\ ret = NoCall
    /\ calls = NoCalls
    /\ max_jobs = 1
    /\ ServiceIdle
    /\ ApiIdle
    /\ DriverIdle
    /\ Initialized
    /\ mainLoop = RunnerStart

\* signal_handler(signum, frame)
SignalHandler(l) ==
    [l EXCEPT !.shutdown_requested = TRUE,
              !.main_task = IF l.main_task = "running" THEN "cancelling"
                            ELSE l.main_task]

\* SIGINT or SIGTERM arrives
Signal ==
    /\ mainLoop.pc \notin {"none", "returned"}
    /\ mainLoop' = SignalHandler(mainLoop)
    /\ RunnerFrame

\* `while not _shutdown_requested`
LoopTest ==
    /\ mainLoop.pc = "test"
    /\ mainLoop.shutdown_requested \/ mainLoop.iterations < MaxIterations
    /\ mainLoop' = [mainLoop EXCEPT !.pc = IF mainLoop.shutdown_requested
                                           THEN "finally" ELSE "create"]
    /\ RunnerFrame

\* `_main_task = asyncio.create_task(run_scraper_iteration(...))`
CreateTask ==
    /\ mainLoop.pc = "create"
    /\ mainLoop' = [mainLoop EXCEPT !.pc = "await",
                                    !.main_task = "running",
                                    !.iterations = mainLoop.iterations + 1,
                                    !.startedAfterSignal =
                                        mainLoop.shutdown_requested]
    /\ RunnerFrame

\* `await _main_task` ends, with its handlers and `_main_task = None`
TaskEnds(outcome) ==
    /\ mainLoop.pc = "await"
    /\ outcome = "CancelledError" => mainLoop.main_task = "cancelling"
    /\ LET after == RunnerAfter(outcome)
       IN  mainLoop' =
             [mainLoop EXCEPT
                !.main_task = "none",
                !.ended = outcome,
                !.pc = IF after = "restart" THEN "after" ELSE "finally",
                !.result = CASE after = "restart" -> "none"
                             [] after = "exit_cancelled" -> "CancelledError"
                             [] OTHER -> "1"]
    /\ RunnerFrame

\* `if _shutdown_requested: break`, else the sleep is started
AfterIteration(delay_seconds) ==
    /\ mainLoop.pc = "after"
    /\ mainLoop' = IF mainLoop.shutdown_requested
                   THEN [mainLoop EXCEPT !.pc = "finally"]
                   ELSE [mainLoop EXCEPT !.pc = "sleep",
                                         !.remaining = delay_seconds]
    /\ RunnerFrame

\* one turn of _sleep_with_shutdown_check's loop
SleepWithShutdownCheck ==
    /\ mainLoop.pc = "sleep"
    /\ mainLoop' = IF mainLoop.shutdown_requested \/ mainLoop.remaining = 0
                   THEN [mainLoop EXCEPT !.pc = "test", !.remaining = 0]
                   ELSE [mainLoop EXCEPT !.remaining = mainLoop.remaining - 1]
    /\ RunnerFrame

\* the finally block: service.cleanup() and data_store.close(), each in its
\* own try/except Exception
RunnerFinally ==
    /\ mainLoop.pc = "finally"
    /\ mainLoop' = [mainLoop EXCEPT
                      !.pc = "returned",
                      !.cleanups = mainLoop.cleanups + 1,
                      !.closes = mainLoop.closes + 1,
                      !.result = IF mainLoop.result = "none" THEN "0"
                                 ELSE mainLoop.result]
    /\ RunnerFrame

RunnerNext ==
    \/ Signal
    \/ LoopTest
    \/ CreateTask
    \/ \E outcome \in TaskOutcomes : TaskEnds(outcome)
    \/ \E delay_seconds \in SleepWakeUps : AfterIteration(delay_seconds)
    \/ SleepWithShutdownCheck
    \/ RunnerFinally

SpecRunner == RunnerInit /\ [][RunnerNext]_vars

\* C35: once a signal has been handled no iteration is started, an
\* iteration that runs when the signal arrives is cancelled, and the runner
\* returns after one service.cleanup() and one data_store.close().
C35_ShutdownStopsLoop ==
    /\ ~mainLoop.startedAfterSignal
    /\ mainLoop.shutdown_requested => mainLoop.main_task # "running"
    /\ mainLoop.pc = "returned" => (mainLoop.cleanups = 1 /\ mainLoop.closes = 1)

----------------------------------------------------------------------------
(* Successive iterations of the persistent loop: run_scraping is called     *)
(* again on the service that run_main_with_shutdown has constructed once    *)

\* a run that starts with an empty set of processed uids
ClearedPerRun(q) == <<>>

\* comprehensive_jobs_found at the start of a run_scraping call: the deque is
\* created in __init__ and run_scraping does not touch it before its loop
AtRunStart(q) == q

RunsInit ==
    /\ backend = "postgres"
    /\ isOpen = TRUE
    /\ rows = {}
    /\ kv = {}
    /\ failed = <<>>
    /\ now = 0
    /\ ticks = 0
    /\ seen = 0
    /\ seenAt = [id \in JobIds |-> Never]
    /\ ret = NoCall
    /\ calls = NoCalls
    /\ max_jobs \in Quotas
    /\ ServiceIdle
    /\ ApiIdle
    /\ DriverIdle
    /\ Initialized
    /\ mainLoop = [RunnerStart EXCEPT !.pc = "await", !.main_task = "running",
                                      !.iterations = 1]

\* the iteration has ended without cancellation and the loop starts the
\* next one: run_scraping(search_urls) on the same service
RunScrapingAgain ==
    /\ pc \in {"returned", "raised"}
    /\ mainLoop.iterations < MaxIterations
    /\ mainLoop' = [mainLoop EXCEPT !.iterations = mainLoop.iterations + 1]
    /\ pc' = "loop"
    /\ index' = 0
    /\ job_list' = <<>>
    /\ cursor' = 0
    /\ new_job_urls' = <<>>
    /\ comprehensive_jobs_found' = AtRunStart(comprehensive_jobs_found)
    /\ total_jobs_processed' = total_jobs_processed
    /\ UNCHANGED <<max_jobs, cancelRequested, delivered, individual_jobs,
                   job_list_db, pushed, tab, opens, openTabs, cleanupErrors,
                   thrown, now>>
    /\ UNCHANGED <<storeRest, runner, calls, driverVars, summary, cleanupVars,
                   bypass, waited, api>>

\* the runs are followed with a driver whose bypass, waits and tab closes
\* work, whose page loads take two minutes, and a listing store that takes
\* every stub; page loads, tab opens, extractions and detail saves can fail
RunsNext ==
    \/ RunScraping
    \/ \E load \in PageLoads, listing \in Listings :
          NextSearchUrl(load, 120, 0, "found", listing)
    \/ ScanJob("ok", FALSE)
    \/ QueueJob("ok")
    \/ QueueDetailPages
    \/ \E open \in OpenOutcomes : OpenJobUrl(open, "ok")
    \/ \E ext \in ExtractOutcomes, save \in SaveOutcomes :
          ExtractAndPush("found", ext, save, FALSE, "closed")
    \/ \E d \in DelaySeconds : ApplyRandomDelay(d)
    \/ RunScrapingAgain

SpecRuns == RunsInit /\ [][RunsNext]_vars

----------------------------------------------------------------------------
(* The API-forwarding actor: JobProcessor._process_jobs_simple and          *)
(* process_jobs_simple of main.py, which are the same loop                  *)

\* the jobs the API has returned, and maxJobs as the actor input or the
\* query string gives it (no range is enforced)
ApiJobs == {<<>>, <<"j1">>, <<"j1", "j2">>, <<"j1", "j2", "j3">>}
ApiQuotas == {-1, 0, 1, 2, 5}

\* seq[:n] of Python: a negative n counts from the end
PySlice(seq, n) ==
    LET stop == IF n >= 0 THEN (IF n < Len(seq) THEN n ELSE Len(seq))
                ELSE (IF Len(seq) + n > 0 THEN Len(seq) + n ELSE 0)
    IN  SubSeq(seq, 1, stop)

\* min(max_jobs, total_jobs)
TotalJobsToProcess(a) ==
    IF a.max_jobs < Len(a.jobs) THEN a.max_jobs ELSE Len(a.jobs)

\* jobs[:total_jobs_to_process]
JobsToProcess(a) == PySlice(a.jobs, TotalJobsToProcess(a))

ApiFrame ==
    /\ UNCHANGED <<pc, max_jobs, cancelRequested, delivered, index, job_list,
                   cursor, new_job_urls, comprehensive_jobs_found,
                   individual_jobs, job_list_db, pushed, tab, opens, openTabs,
                   cleanupErrors, thrown, now>>
    /\ UNCHANGED <<storeRest, runner, calls, driverVars, summary, cleanupVars,
                   bypass, waited, total_jobs_processed, mainLoop>>

ApiInit ==
    /\ backend = "postgres"
    /\ isOpen = TRUE
    /\ rows = {}
    /\ kv = {}
    /\ failed = <<>>
    /\ now = 0
    /\ ticks = 0
    /\ seen = 0
    /\ seenAt = [id \in JobIds |-> Never]
    /\ ret = NoCall
    /\ calls = NoCalls
    /\ max_jobs = 1
    /\ ServiceIdle
    /\ RunnerIdle
    /\ DriverIdle
    /\ Initialized
    /\ \E jobs \in ApiJobs, debug_mode \in BOOLEAN, quota \in ApiQuotas :
          api = ProcessJobsCall(jobs, debug_mode, quota)

\* one turn of the loop: the copy is pushed with Actor.push_data and
\* counted, or the exception of the push is logged; in debug mode an
\* exception of the logging after the count is logged as well
ProcessJob(push, log) ==
    /\ api.returned = -1
    /\ api.position < Len(JobsToProcess(api))
    /\ log = "Exception" => api.debug_mode
    /\ api' = IF push = "ok"
              THEN [api EXCEPT !.position = api.position + 1,
                               !.pushed = Append(api.pushed,
                                                 JobsToProcess(api)[api.position + 1]),
                               !.processed_count = api.processed_count + 1]
              ELSE [api EXCEPT !.position = api.position + 1]
    /\ ApiFrame

\* `return processed_count`
ReturnProcessedCount ==
    /\ api.returned = -1
    /\ api.position = Len(JobsToProcess(api))
    /\ api' = [api EXCEPT !.returned = api.processed_count]
    /\ ApiFrame

ApiNext ==
    \/ \E push \in SaveOutcomes, log \in SaveOutcomes : ProcessJob(push, log)
    \/ ReturnProcessedCount

SpecApi == ApiInit /\ [][ApiNext]_vars

\* positions of jobs, in ascending order, at which the pushed jobs stand
RECURSIVE InInputOrder(_, _)
InInputOrder(sub, seq) ==
    IF sub = <<>> THEN TRUE
    ELSE IF seq = <<>> THEN FALSE
    ELSE IF Head(sub) = Head(seq) THEN InInputOrder(Tail(sub), Tail(seq))
    ELSE InInputOrder(sub, Tail(seq))

\* C38: at most min(max_jobs, number of jobs) jobs are pushed (none when
\* that is not positive), in input order; a failed push does not end the
\* loop; and the returned count is the number of jobs pushed.
C38_PushedWithinLimit ==
    /\ Len(api.pushed) <= (IF TotalJobsToProcess(api) > 0
                           THEN TotalJobsToProcess(api) ELSE 0)
    /\ InInputOrder(api.pushed, api.jobs)
    /\ api.returned # -1 => /\ api.returned = Len(api.pushed)
                            /\ api.position = Len(JobsToProcess(api))

====
